---- MODULE Spec2Model ----
(***************************************************************************)
(* A model of ChatWebview (clients/vscode/src/chat/webview.ts): the host   *)
(* side of the chat panel bridge.  The lifecycle controller, the deferred  *)
(* action queue, the version-keyed capability handle, change collection    *)
(* and the session state store are modelled from the TypeScript source.    *)
(*                                                                         *)
(* JavaScript is single threaded: a handler runs to its next `await`       *)
(* without interleaving, so one action is one such run.  An optional value *)
(* (`T | undefined`) is a sequence of length 0 or 1.  A string that the    *)
(* code parses (a version) is a sequence of one-character strings.         *)
(***************************************************************************)
EXTENDS Integers, Sequences, FiniteSets, TLC

undefined == <<>>

Some(x) == <<x>>

\* ------------------------------------------------------------------ bounds

\* page renders (loadChatPanel / loadErrorPage) in one run
MaxReloads == 2

\* chatIframeLoaded messages (connect timers armed) in one run
MaxTimers == 2

\* host-to-panel calls in one run
MaxCalls == 2

\* init(webview) calls in one run
MaxInits == 1

\* the longest diff text, in characters
MaxDiffLen == 2

\* the largest maxChars passed to getChanges
MaxChars == 5

\* the longest document text, in characters
MaxTextLen == 3

\* the most top-level symbols of the active document
MaxSymbols == 3

\* the largest limit passed to listSymbols
MaxLimit == 3

\* page renders in one run of the session state store across reloads
MaxSwitches == 3

\* active-editor and selection change events in one run
MaxEvents == 3

\* init(webview) calls in one run with a view initialised again
MaxViews == 2

\* ---------------------------------------------------------------- versions

Digits == {"0", "1", "2", "3", "4", "5", "6", "7", "8", "9"}

DigitVal(c) ==
    CASE c = "0" -> 0 [] c = "1" -> 1 [] c = "2" -> 2 [] c = "3" -> 3
      [] c = "4" -> 4 [] c = "5" -> 5 [] c = "6" -> 6 [] c = "7" -> 7
      [] c = "8" -> 8 [] c = "9" -> 9

RECURSIVE NumVal(_)
\* the number a digit string denotes
NumVal(ds) ==
    IF ds = <<>> THEN 0
    ELSE NumVal(SubSeq(ds, 1, Len(ds) - 1)) * 10 + DigitVal(ds[Len(ds)])

RECURSIVE SplitDots(_)
\* s.split(".")
SplitDots(s) ==
    IF s = <<>> THEN << <<>> >>
    ELSE LET rest == SplitDots(Tail(s))
         IN  IF Head(s) = "." THEN << <<>> >> \o rest
             ELSE << <<Head(s)>> \o Head(rest) >> \o Tail(rest)

\* a numeric identifier of a strict semantic version: digits, no leading zero
IsNumericId(c) ==
    /\ c # <<>>
    /\ \A i \in 1..Len(c) : c[i] \in Digits
    /\ (Len(c) > 1 => c[1] # "0")

\* semver.parse: <<major, minor, patch>> or undefined.  A leading "v" or "="
\* is dropped; prerelease and build suffixes are outside the modelled inputs.
semverParse(s) ==
    LET body == IF s # <<>> /\ Head(s) \in {"v", "="} THEN Tail(s) ELSE s
        comps == SplitDots(body)
    IN  IF Len(comps) = 3 /\ \A i \in 1..3 : IsNumericId(comps[i])
        THEN Some(<<NumVal(comps[1]), NumVal(comps[2]), NumVal(comps[3])>>)
        ELSE undefined

\* semver.valid(key) is truthy
semverValid(s) == semverParse(s) # undefined

\* semver.compare on parsed versions: -1, 0 or 1
semverCompare(a, b) ==
    IF a[1] # b[1] THEN (IF a[1] < b[1] THEN -1 ELSE 1)
    ELSE IF a[2] # b[2] THEN (IF a[2] < b[2] THEN -1 ELSE 1)
    ELSE IF a[3] # b[3] THEN (IF a[3] < b[3] THEN -1 ELSE 1)
    ELSE 0

RECURSIVE FirstDigit(_, _)
\* index of the first digit of s at or after i, 0 if none
FirstDigit(s, i) ==
    IF i > Len(s) THEN 0
    ELSE IF s[i] \in Digits THEN i
    ELSE FirstDigit(s, i + 1)

RECURSIVE DigitRun(_, _)
\* length of the run of digits of s that starts at i
DigitRun(s, i) ==
    IF i > Len(s) \/ s[i] \notin Digits THEN 0
    ELSE 1 + DigitRun(s, i + 1)

\* semver.coerce: the first number of the string and up to two ".number"
\* groups after it, missing groups read as 0; undefined if no digit
semverCoerce(s) ==
    LET i == FirstDigit(s, 1)
    IN  IF i = 0 THEN undefined
        ELSE LET j    == i + DigitRun(s, i)
                 has2 == j + 1 <= Len(s) /\ s[j] = "." /\ s[j + 1] \in Digits
                 k    == IF has2 THEN j + 1 + DigitRun(s, j + 1) ELSE j
                 has3 == has2 /\ k + 1 <= Len(s) /\ s[k] = "." /\ s[k + 1] \in Digits
                 m    == IF has3 THEN k + 1 + DigitRun(s, k + 1) ELSE k
             IN  Some(<< NumVal(SubSeq(s, i, j - 1)),
                         IF has2 THEN NumVal(SubSeq(s, j + 1, k - 1)) ELSE 0,
                         IF has3 THEN NumVal(SubSeq(s, k + 1, m - 1)) ELSE 0 >>)

\* the version keys the code names
V080 == <<"0", ".", "8", ".", "0">>

V0100 == <<"0", ".", "1", "0", ".", "0">>

\* other keys a panel may publish
V090 == <<"0", ".", "9", ".", "0">>

V0110 == <<"0", ".", "1", "1", ".", "0">>

V100 == <<"1", ".", "0", ".", "0">>

KeyShort == <<"0", ".", "1", "0">>

KeyThen == <<"t", "h", "e", "n">>

\* MIN_VERSION
MinVersion == <<"0", ".", "2", "7", ".", "0">>

\* ------------------------------------------------------------------- state

VARIABLES
    webview,             \* this.webview: undefined or <<id>>
    client,              \* this.client: undefined or <<the set of keys of the handle>>
    currentConfig,       \* this.currentConfig: undefined or <<[endpoint, token]>>
    reloadCount,         \* this.reloadCount
    createClientTimeout, \* this.createClientTimeout: undefined or <<timer id>>
    pendingActions,      \* this.pendingActions: the queued closures, each with its captured arguments
    sessionStateMap,     \* this.sessionStateMap: endpoint -> (key -> value)
    html,                \* webview.html: the page rendered last
    emitted,             \* the "didChangedStatus" event emitted last
    timers,              \* the setTimeout timers armed and neither fired nor cleared
    timerCount,          \* timers created so far (a timer id is never reused)
    webviewCount,        \* webviews passed to init so far
    statusCurrent,       \* lspClient.status.current
    agentConfig,         \* lspClient.agentConfig.current
    inflight,            \* initChatPanel runs suspended at `await createChatPanelApiClient`
    initPending,         \* initChatPanel runs suspended at `await client["0.8.0"].init`
    clientGen,           \* history: the reloadCount of the load whose handle this.client is
    calls,               \* history: every host-to-panel call made, by call id
    started,             \* history: the queued closures started by a flush, in start order
    resolved,            \* history: the handle creation that completed last
    shown,               \* history: the showChatPanel messages posted
    timeouts,            \* history: the connect timers that fired
    apiVersions,         \* the value getApiVersions() returned last
    terminalContextEnabled, \* the value isTerminalContextEnabled returned last
    gitApiAvailable,     \* gitProvider.isApiAvailable()
    repositories,        \* gitProvider.getRepositories() with the diffs getDiff returns
    changes,             \* the last getChanges call: its parameter and what it returned
    fetched,             \* the last fetchSessionState call: its keys and what it returned
    stored,              \* the last storeSessionState call: its argument
    documents,           \* what workspace.openTextDocument gives for each file path
    definitions,         \* where vscode.executeDefinitionProvider finds a definition
    lookedUp,            \* the last lookupSymbol call: its arguments and what it returned
    activeTextEditor,    \* window.activeTextEditor is defined
    documentSymbols,     \* what vscode.executeDocumentSymbolProvider gives for the active document
    documentSymbolsRejects, \* vscode.executeDocumentSymbolProvider throws
    workspaceSymbols,    \* what vscode.executeWorkspaceSymbolProvider gives; undefined if it fails
    listed,              \* the last listSymbols call: its parameters and what it returned
    debounced,           \* the pending timer of the debounced notification, with its last arguments
    contextPending,      \* notifications suspended at `await getEditorContext`
    selectionLog,        \* history: the editor events received and the expiries of the debounce timer
    selectionCalls       \* history: the updateActiveSelection calls of the notifications

objVars == <<webview, client, clientGen, currentConfig, reloadCount, html, emitted, inflight>>

timerVars == <<createClientTimeout, timers, timerCount>>

queueVars == <<pendingActions, calls, started>>

envVars == <<statusCurrent, agentConfig>>

readyVars == <<initPending, resolved, shown>>

sessionVars == <<sessionStateMap, fetched, stored>>

capVars == <<apiVersions, terminalContextEnabled>>

gitVars == <<gitApiAvailable, repositories, changes>>

\* what the lifecycle and queue actions leave alone
symbolVars == <<documents, definitions, lookedUp, activeTextEditor, documentSymbols,
                documentSymbolsRejects, workspaceSymbols, listed>>

selectionVars == <<debounced, contextPending, selectionLog, selectionCalls>>

otherVars == <<sessionVars, capVars, gitVars, symbolVars, selectionVars>>

vars == <<objVars, timerVars, queueVars, envVars, readyVars, webviewCount, timeouts, otherVars>>

\* ------------------------------------------------------------- environment

\* lspClient.status.current values: a healthy server, and a lost connection
StatusHealthy ==
    Some([status |-> "ready",
          serverHealth |-> Some([webserver |-> TRUE, chat_model |-> TRUE, version |-> undefined])])

StatusDisconnected == Some([status |-> "disconnected", serverHealth |-> undefined])

HostStatuses == {StatusHealthy, StatusDisconnected}

\* lspClient.agentConfig.current values
ServerConfigs == {[endpoint |-> "A", token |-> "t1"], [endpoint |-> "B", token |-> "t1"]}

AgentConfigs == {undefined} \cup {Some([server |-> c]) : c \in ServerConfigs}

\* the handles createClient may resolve with, as the set of their keys
Handles == {{V080}, {V080, V0100}, {V0100}}

\* ------------------------------------------------------------- error pages

MsgConnecting == "Connecting to the Tabby server..."

MsgUnauthorized == "Your token is invalid."

MsgDisconnected == "Failed to connect to the Tabby server."

MsgNoHealth == "Cannot get the health status of the Tabby server."

MsgNoChatModel == "You need to launch the server with the chat model enabled"

MsgTooOld == "Tabby Chat requires Tabby server version 0.27.0 or later."

MsgNoConfig == "Cannot get the server configuration."

MsgFailedToLoad == "Failed to load the chat panel."

\* a check that also turns down a server of the minimum version itself
checkStatusInfoAboveMinimum(statusInfo) ==
    IF statusInfo = undefined \/ statusInfo[1].status = "connecting" THEN Some(MsgConnecting)
    ELSE IF statusInfo[1].status = "unauthorized" THEN Some(MsgUnauthorized)
    ELSE IF statusInfo[1].status = "disconnected" THEN Some(MsgDisconnected)
    ELSE LET health == statusInfo[1].serverHealth
         IN  IF health = undefined THEN Some(MsgNoHealth)
             ELSE IF ~health[1].webserver \/ ~health[1].chat_model THEN Some(MsgNoChatModel)
             ELSE LET v == health[1].version
                      version == IF v = undefined THEN undefined
                                 ELSE IF v[1].type \in {"string", "git_describe"}
                                      THEN semverCoerce(v[1].text)
                                      ELSE undefined
                  IN  IF version # undefined
                         /\ semverCompare(version[1], semverParse(MinVersion)[1]) <= 0
                      THEN Some(MsgTooOld)
                      ELSE undefined

\* checkStatusInfo: the error message, or undefined if there is no error
checkStatusInfo(statusInfo) ==
    IF statusInfo = undefined \/ statusInfo[1].status = "connecting" THEN Some(MsgConnecting)
    ELSE IF statusInfo[1].status = "unauthorized" THEN Some(MsgUnauthorized)
    ELSE IF statusInfo[1].status = "disconnected" THEN Some(MsgDisconnected)
    ELSE LET health == statusInfo[1].serverHealth
         IN  IF health = undefined THEN Some(MsgNoHealth)
             ELSE IF ~health[1].webserver \/ ~health[1].chat_model THEN Some(MsgNoChatModel)
             ELSE LET v == health[1].version
                      version == IF v = undefined THEN undefined
                                 ELSE IF v[1].type \in {"string", "git_describe"}
                                      THEN semverCoerce(v[1].text)
                                      ELSE undefined
                  IN  IF version # undefined
                         /\ semverCompare(version[1], semverParse(MinVersion)[1]) < 0
                      THEN Some(MsgTooOld)
                      ELSE undefined

\* ------------------------------------------------------- the object's state

\* the fields the page-loading methods read and write
This ==
    [webview |-> webview, client |-> client, clientGen |-> clientGen,
     currentConfig |-> currentConfig, reloadCount |-> reloadCount, html |-> html,
     emitted |-> emitted, inflight |-> inflight]

Become(t) ==
    /\ webview' = t.webview
    /\ client' = t.client
    /\ clientGen' = t.clientGen
    /\ currentConfig' = t.currentConfig
    /\ reloadCount' = t.reloadCount
    /\ html' = t.html
    /\ emitted' = t.emitted
    /\ inflight' = t.inflight

\* this.currentConfig?.endpoint ?? ""
endpointOf(config) == IF config = undefined THEN "" ELSE config[1].endpoint

\* this.currentConfig?.token ?? ""
tokenOf(config) == IF config = undefined THEN "" ELSE config[1].token

\* an error page rendered over the handle left in place
loadErrorPageKeepsClient(t, message) ==
    IF t.webview = undefined THEN t
    ELSE [t EXCEPT !.emitted = "error",
                   !.reloadCount = t.reloadCount + 1,
                   !.html = [page |-> "error", reloadCount |-> t.reloadCount + 1,
                             text |-> message]]

\* loadErrorPage(message)
loadErrorPage(t, message) ==
    IF t.webview = undefined THEN t
    ELSE [t EXCEPT !.client = undefined,
                   !.clientGen = 0,
                   !.emitted = "error",
                   !.reloadCount = t.reloadCount + 1,
                   !.html = [page |-> "error", reloadCount |-> t.reloadCount + 1,
                             text |-> message]]

\* loadChatPanel(): the page is rendered and initChatPanel runs up to its
\* first await, where the handle creation is in flight
loadChatPanel(t) ==
    IF t.webview = undefined THEN t
    ELSE [t EXCEPT !.client = undefined,
                   !.clientGen = 0,
                   !.emitted = "loading",
                   !.reloadCount = t.reloadCount + 1,
                   !.html = [page |-> "main", reloadCount |-> t.reloadCount + 1,
                             text |-> endpointOf(t.currentConfig)],
                   !.inflight = t.inflight \cup
                                {[gen |-> t.reloadCount + 1, webview |-> t.webview[1]]}]

\* a check that compares the endpoint and not the token
checkStatusAndLoadContentEndpointOnly(t, statusInfo, config) ==
    LET error == checkStatusInfo(statusInfo)
    IN  IF error # undefined
        THEN loadErrorPage([t EXCEPT !.currentConfig = undefined], error[1])
        ELSE IF config = undefined
        THEN loadErrorPage([t EXCEPT !.currentConfig = undefined], MsgNoConfig)
        ELSE IF \/ t.currentConfig = undefined
                \/ t.currentConfig[1].endpoint # config[1].server.endpoint
        THEN loadChatPanel([t EXCEPT !.currentConfig = Some(config[1].server)])
        ELSE t

\* checkStatusAndLoadContent()
checkStatusAndLoadContent(t, statusInfo, config) ==
    LET error == checkStatusInfo(statusInfo)
    IN  IF error # undefined
        THEN loadErrorPage([t EXCEPT !.currentConfig = undefined], error[1])
        ELSE IF config = undefined
        THEN loadErrorPage([t EXCEPT !.currentConfig = undefined], MsgNoConfig)
        ELSE IF \/ t.currentConfig = undefined
                \/ t.currentConfig[1].endpoint # config[1].server.endpoint
                \/ t.currentConfig[1].token # config[1].server.token
        THEN loadChatPanel([t EXCEPT !.currentConfig = Some(config[1].server)])
        ELSE t

\* ------------------------------------------------------ host-to-panel calls

\* client["0.8.0"].op(...): a TypeError when the handle has no "0.8.0" key
via080(h) == IF V080 \in h THEN "delivered" ELSE "TypeError"

\* client["0.10.0"]?.op(...): skipped when the handle has no "0.10.0" key
via0100(h) == IF V0100 \in h THEN "delivered" ELSE "skipped"

\* what the call does on handle h (the `if (this.client)` branches)
directCall(op, arg, h) ==
    CASE op = "updateActiveSelection" -> via080(h)
      [] op = "addRelevantContext" -> IF arg = "terminal" THEN via0100(h) ELSE via080(h)
      [] op = "executeCommand" -> IF arg = "explain-terminal" THEN via0100(h) ELSE via080(h)
      [] op = "navigate" -> via080(h)

\* what a queued closure does when it is started: `this.client?.[...]`,
\* resolved against this.client at that time
pendingCall(fn, c) ==
    IF c = undefined THEN "skipped"
    ELSE CASE fn.op = "updateActiveSelection" -> via080(c[1])
           [] fn.op = "addRelevantContext" ->
                IF fn.arg = "terminal" THEN via0100(c[1]) ELSE via080(c[1])
           [] fn.op = "executeCommand" ->
                IF fn.arg = "explain-terminal" THEN via0100(c[1]) ELSE via080(c[1])

\* a call that is put on the queue whether or not there is a handle
hostCallAlwaysQueued(op, arg) ==
    /\ Len(calls) < MaxCalls
    /\ calls' = Append(calls, [op |-> op, arg |-> arg, handle |-> client # undefined,
                               path |-> "queued", result |-> "pending"])
    /\ pendingActions' = Append(pendingActions,
                                [id |-> Len(calls) + 1, op |-> op, arg |-> arg])
    /\ UNCHANGED <<objVars, timerVars, started, envVars, readyVars, otherVars,
                   webviewCount, timeouts>>

\* the two-path shape of setActiveSelection, addRelevantContext, executeCommand
hostCall(op, arg) ==
    /\ Len(calls) < MaxCalls
    /\ IF client # undefined
       THEN /\ calls' = Append(calls, [op |-> op, arg |-> arg, handle |-> client # undefined,
                                       path |-> "direct",
                                       result |-> directCall(op, arg, client[1])])
            /\ UNCHANGED pendingActions
       ELSE /\ calls' = Append(calls, [op |-> op, arg |-> arg, handle |-> client # undefined,
                                       path |-> "queued", result |-> "pending"])
            /\ pendingActions' = Append(pendingActions,
                                        [id |-> Len(calls) + 1, op |-> op, arg |-> arg])
    /\ UNCHANGED <<objVars, timerVars, started, envVars, readyVars, otherVars,
                   webviewCount, timeouts>>

setActiveSelection == hostCall("updateActiveSelection", "selection")

addRelevantContext == \E kind \in {"file", "terminal"} : hostCall("addRelevantContext", kind)

executeCommand == \E command \in {"explain", "explain-terminal"} : hostCall("executeCommand", command)

\* navigate has no else branch: without a handle the call does nothing
navigate ==
    /\ Len(calls) < MaxCalls
    /\ calls' = Append(calls,
                       IF client # undefined
                       THEN [op |-> "navigate", arg |-> "view", handle |-> TRUE,
                             path |-> "direct", result |-> directCall("navigate", "view", client[1])]
                       ELSE [op |-> "navigate", arg |-> "view", handle |-> FALSE,
                             path |-> "dropped", result |-> "none"])
    /\ UNCHANGED <<objVars, timerVars, pendingActions, started, envVars, readyVars,
                   otherVars, webviewCount, timeouts>>

\* ------------------------------------------------------------- lifecycle

\* init(webview): the listeners are registered and the status is checked.
\* The host calls init on a view that is not initialised.
init ==
    /\ webview = undefined
    /\ webviewCount < MaxInits
    /\ reloadCount < MaxReloads
    /\ webviewCount' = webviewCount + 1
    /\ Become(checkStatusAndLoadContent([This EXCEPT !.webview = Some(webviewCount + 1)],
                                        statusCurrent, agentConfig))
    /\ UNCHANGED <<timerVars, queueVars, envVars, readyVars, otherVars, timeouts>>

\* init(webview), over a longer run: a view is initialised again after
\* dispose
initAgain ==
    /\ webview = undefined
    /\ webviewCount < MaxViews
    /\ reloadCount < MaxSwitches
    /\ webviewCount' = webviewCount + 1
    /\ Become(checkStatusAndLoadContent([This EXCEPT !.webview = Some(webviewCount + 1)],
                                        statusCurrent, agentConfig))
    /\ UNCHANGED <<timerVars, queueVars, envVars, readyVars, otherVars, timeouts>>

\* a dispose that starts the reload counter again
disposeResettingCount ==
    /\ Become([This EXCEPT !.webview = undefined, !.client = undefined, !.clientGen = 0,
                           !.currentConfig = undefined, !.reloadCount = 0])
    /\ timers' = IF createClientTimeout # undefined
                 THEN timers \ {createClientTimeout[1]} ELSE timers
    /\ createClientTimeout' = undefined
    /\ UNCHANGED <<timerCount, queueVars, envVars, readyVars, otherVars, webviewCount,
                   timeouts>>

\* dispose(): pendingActions, sessionStateMap and reloadCount are left alone
dispose ==
    /\ Become([This EXCEPT !.webview = undefined, !.client = undefined, !.clientGen = 0,
                           !.currentConfig = undefined])
    /\ timers' = IF createClientTimeout # undefined
                 THEN timers \ {createClientTimeout[1]} ELSE timers
    /\ createClientTimeout' = undefined
    /\ UNCHANGED <<timerCount, queueVars, envVars, readyVars, otherVars, webviewCount,
                   timeouts>>

\* lspClient.status fires "didChange": the status listener, registered from
\* init to dispose, runs checkStatusAndLoadContent
statusDidChange ==
    \E s \in HostStatuses, c \in AgentConfigs :
        /\ reloadCount < MaxReloads
        /\ statusCurrent' = s
        /\ agentConfig' = c
        /\ IF webview # undefined
           THEN Become(checkStatusAndLoadContent(This, s, c))
           ELSE Become(This)
        /\ UNCHANGED <<timerVars, queueVars, readyVars, otherVars, webviewCount, timeouts>>

\* every kind of status checkStatusInfo tells apart
StatusConnecting == Some([status |-> "connecting", serverHealth |-> undefined])

StatusUnauthorized == Some([status |-> "unauthorized", serverHealth |-> undefined])

StatusNoHealth == Some([status |-> "ready", serverHealth |-> undefined])

StatusNoChatModel ==
    Some([status |-> "ready",
          serverHealth |-> Some([webserver |-> TRUE, chat_model |-> FALSE, version |-> undefined])])

StatusTooOld ==
    Some([status |-> "ready",
          serverHealth |-> Some([webserver |-> TRUE, chat_model |-> TRUE,
                                 version |-> Some([type |-> "string",
                                                   text |-> <<"0", ".", "2", "6", ".", "9">>])])])

StatusRecent ==
    Some([status |-> "ready",
          serverHealth |-> Some([webserver |-> TRUE, chat_model |-> TRUE,
                                 version |-> Some([type |-> "git_describe",
                                                   text |-> <<"v", "0", ".", "2", "7", ".", "0">>])])])

AllStatuses ==
    {undefined, StatusConnecting, StatusUnauthorized, StatusDisconnected, StatusNoHealth,
     StatusNoChatModel, StatusTooOld, StatusRecent, StatusHealthy}

\* the texts of health["version"]: below, at and above the minimum, short,
\* prefixed, and texts with no number in them
VersionTexts ==
    {<<"0", ".", "2", "6", ".", "9">>, <<"0", ".", "2", "7", ".", "0">>,
     <<"0", ".", "2", "7", ".", "1">>, <<"1", ".", "0", ".", "0">>,
     <<"0", ".", "9", ".", "0">>, <<"v", "0", ".", "2", "6", ".", "0">>,
     <<"0", ".", "2", "6">>, <<"d", "e", "v">>}

\* health["version"]: missing, a string, an object with git_describe, or
\* an object without it
HealthVersions ==
    {undefined} \cup {Some([type |-> t, text |-> x]) :
                         t \in {"string", "git_describe", "other"}, x \in VersionTexts}

\* every StatusInfo checkStatusInfo may be given
StatusInfos ==
    {undefined} \cup
    {Some([status |-> st, serverHealth |-> h]) :
        st \in {"connecting", "unauthorized", "disconnected", "ready"},
        h \in {undefined} \cup {Some([webserver |-> w, chat_model |-> m, version |-> v]) :
                                   w \in BOOLEAN, m \in BOOLEAN, v \in HealthVersions}}

\* server configs that differ in the token only, and one with no endpoint
AllAgentConfigs ==
    AgentConfigs \cup {Some([server |-> [endpoint |-> "A", token |-> "t2"]]),
                       Some([server |-> [endpoint |-> "", token |-> "t1"]])}

\* the status listener of init, on every kind of status and config
statusDidChangeAny ==
    \E s \in AllStatuses, c \in AllAgentConfigs :
        /\ reloadCount < MaxReloads
        /\ statusCurrent' = s
        /\ agentConfig' = c
        /\ IF webview # undefined
           THEN Become(checkStatusAndLoadContent(This, s, c))
           ELSE Become(This)
        /\ UNCHANGED <<timerVars, queueVars, readyVars, otherVars, webviewCount, timeouts>>

\* the status listener of init, on every status info, with a server config
statusDidChangeEvery ==
    \E s \in StatusInfos :
        /\ reloadCount < MaxReloads
        /\ statusCurrent' = s
        /\ agentConfig' = Some([server |-> [endpoint |-> "A", token |-> "t1"]])
        /\ IF webview # undefined
           THEN Become(checkStatusAndLoadContent(This, s, agentConfig'))
           ELSE Become(This)
        /\ UNCHANGED <<timerVars, queueVars, readyVars, otherVars, webviewCount, timeouts>>

\* the status listener of init, for a status that changes from one healthy
\* value to another while the config stays as it is
statusDidChangeHealthy ==
    \E s \in {StatusHealthy, StatusRecent} :
        /\ reloadCount < MaxSwitches
        /\ statusCurrent' = s
        /\ IF webview # undefined
           THEN Become(checkStatusAndLoadContent(This, s, agentConfig))
           ELSE Become(This)
        /\ UNCHANGED <<agentConfig, timerVars, queueVars, readyVars, otherVars, webviewCount,
                       timeouts>>

\* the status listener of init, over a longer run of page renders
statusDidChangeAgain ==
    \E s \in HostStatuses, c \in AgentConfigs :
        /\ reloadCount < MaxSwitches
        /\ statusCurrent' = s
        /\ agentConfig' = c
        /\ IF webview # undefined
           THEN Become(checkStatusAndLoadContent(This, s, c))
           ELSE Become(This)
        /\ UNCHANGED <<timerVars, queueVars, readyVars, otherVars, webviewCount, timeouts>>

\* the webview posts {action: "chatIframeLoaded"}: a timer is armed and kept
\* in createClientTimeout; a timer that was there before is not cleared
chatIframeLoaded ==
    /\ webview # undefined
    /\ html.page = "main"
    /\ timerCount < MaxTimers
    /\ timerCount' = timerCount + 1
    /\ timers' = timers \cup {timerCount + 1}
    /\ createClientTimeout' = Some(timerCount + 1)
    /\ UNCHANGED <<objVars, queueVars, envVars, readyVars, otherVars, webviewCount,
                   timeouts>>

\* the callback of a connect timer runs
connectTimeout ==
    \E t \in timers :
        /\ reloadCount < MaxReloads
        /\ timers' = timers \ {t}
        /\ IF endpointOf(currentConfig) = ""
           THEN Become(checkStatusAndLoadContent(This, statusCurrent, agentConfig))
           ELSE Become(loadErrorPage(This, MsgFailedToLoad))
        /\ timeouts' = timeouts \cup
                       {[ready |-> client # undefined /\ clientGen = reloadCount,
                         page |-> html'.page]}
        /\ UNCHANGED <<createClientTimeout, timerCount, queueVars, envVars, readyVars,
                       otherVars, webviewCount>>

\* the queue left as it is after the forEach
queueAfterFlushKept(q) == q

\* this.pendingActions = [] after the forEach
queueAfterFlush(q) == <<>>

\* initChatPanel from the completion of createChatPanelApiClient to its next
\* await: the handle is set, "ready" is emitted, the tracked timer is
\* cleared, every queued closure is started, the queue is emptied and init
\* is called on the panel
createClientResolved ==
    \E p \in inflight, h \in Handles :
        /\ inflight' = inflight \ {p}
        /\ client' = Some(h)
        /\ clientGen' = p.gen
        /\ emitted' = "ready"
        /\ timers' = IF createClientTimeout # undefined
                     THEN timers \ {createClientTimeout[1]} ELSE timers
        /\ createClientTimeout' = undefined
        /\ started' = started \o [k \in 1..Len(pendingActions) |->
                                    [id |-> pendingActions[k].id, gen |-> p.gen,
                                     handle |-> client' # undefined]]
        /\ calls' = [i \in DOMAIN calls |->
                        IF \E k \in 1..Len(pendingActions) : pendingActions[k].id = i
                        THEN LET fn == CHOOSE f \in {pendingActions[k] : k \in 1..Len(pendingActions)} :
                                            f.id = i
                             IN  [calls[i] EXCEPT !.result = pendingCall(fn, client')]
                        ELSE calls[i]]
        /\ pendingActions' = queueAfterFlush(pendingActions)
        /\ initPending' = IF V080 \in h
                          THEN initPending \cup {[gen |-> p.gen, webview |-> p.webview,
                                                  token |-> tokenOf(currentConfig)]}
                          ELSE initPending
        /\ resolved' = Some([gen |-> p.gen, at |-> reloadCount, init |-> via080(h),
                              queued |-> Len(pendingActions')])
        /\ UNCHANGED <<webview, currentConfig, reloadCount, html, timerCount, envVars, shown,
                       otherVars, webviewCount, timeouts>>

\* `await client["0.8.0"].init(...)` completes: showChatPanel is posted to
\* the webview initChatPanel was called with
initCompleted ==
    \E p \in initPending :
        /\ initPending' = initPending \ {p}
        /\ shown' = shown \cup {[gen |-> p.gen, webview |-> p.webview]}
        /\ UNCHANGED <<objVars, timerVars, queueVars, envVars, resolved, otherVars,
                       webviewCount, timeouts>>

\* `await client["0.8.0"].init(...)` rejects: initChatPanel ends there
initFailed ==
    \E p \in initPending :
        /\ initPending' = initPending \ {p}
        /\ UNCHANGED <<objVars, timerVars, queueVars, envVars, resolved, shown, otherVars,
                       webviewCount, timeouts>>

\* ------------------------------------------------------ capability check

lifecycleVars == <<objVars, timerVars, queueVars, envVars, readyVars, webviewCount, timeouts>>

\* the keys a handle may carry: versions, and keys that are no version
VersionKeys == {V080, V090, V0100, V0110, V100, KeyShort, KeyThen}

\* isCompatible(version, target) of ./utils: greater-or-equal under
\* semantic versioning
isCompatible(version, target) ==
    LET v == semverParse(version)
        t == semverParse(target)
    IN  v # undefined /\ t # undefined /\ semverCompare(v[1], t[1]) >= 0

\* getApiVersions(): Object.keys(this.client ?? {}).filter(semver.valid)
getApiVersions ==
    {key \in (IF client = undefined THEN {} ELSE client[1]) : semverValid(key)}

\* the gate read off the key the dispatch uses, "0.10.0" itself
isTerminalContextEnabledExact == client # undefined /\ V0100 \in client[1]

\* isTerminalContextEnabled
isTerminalContextEnabled == \E version \in getApiVersions : isCompatible(version, V0100)

\* a caller reads getApiVersions()
readApiVersions ==
    /\ apiVersions' = Some(getApiVersions)
    /\ UNCHANGED <<lifecycleVars, sessionVars, terminalContextEnabled, gitVars, symbolVars, selectionVars>>

\* a caller reads isTerminalContextEnabled
readTerminalContextEnabled ==
    /\ terminalContextEnabled' = Some(isTerminalContextEnabled)
    /\ UNCHANGED <<lifecycleVars, sessionVars, apiVersions, gitVars, symbolVars, selectionVars>>

\* ------------------------------------------------------- change collection

\* a diff is its text; only its length is read
DiffTexts == {[i \in 1..n |-> "d"] : n \in 1..MaxDiffLen}

\* what getDiff(repo, staged) may return: undefined, or up to two diffs
DiffLists == {<<>>} \cup {<<a>> : a \in DiffTexts} \cup {<<a, b>> : a \in DiffTexts, b \in DiffTexts}

DiffResults == {undefined} \cup {Some(l) : l \in DiffLists}

\* a repository, by what getDiff returns for it
Repositories == [staged : DiffResults, unstaged : DiffResults]

\* what getRepositories() may return: up to two repositories
RepositoryLists ==
    {<<>>} \cup {<<r>> : r \in Repositories}
           \cup {<<r1, r2>> : r1 \in Repositories, r2 \in Repositories}

\* gitProvider.getDiff(repo, staged)
getDiff(repo, staged) == IF staged THEN repo.staged ELSE repo.unstaged

RECURSIVE diffLoop(_, _, _, _)
\* `for (const diff of diffs)`: acc is [res, currentCharCount]
diffLoop(diffs, staged, acc, charLimit) ==
    IF diffs = <<>> THEN acc
    ELSE LET diff == Head(diffs)
             diffChars == Len(diff)
         IN  IF charLimit # undefined /\ acc.currentCharCount + diffChars > charLimit[1]
             THEN acc
             ELSE diffLoop(Tail(diffs), staged,
                           [res |-> Append(acc.res, [content |-> diff, staged |-> staged]),
                            currentCharCount |-> acc.currentCharCount + diffChars],
                           charLimit)

RECURSIVE repoLoop(_, _, _, _)
\* `for (const repo of repos)`
repoLoop(repos, staged, acc, charLimit) ==
    IF repos = <<>> THEN acc
    ELSE LET diffs == getDiff(Head(repos), staged)
         IN  IF diffs = undefined THEN repoLoop(Tail(repos), staged, acc, charLimit)
             ELSE LET after == diffLoop(diffs[1], staged, acc, charLimit)
                  IN  IF charLimit # undefined /\ after.currentCharCount >= charLimit[1]
                      THEN after
                      ELSE repoLoop(Tail(repos), staged, after, charLimit)

\* getRepoChanges(repos, staged, charLimit)
getRepoChanges(repos, staged, charLimit) ==
    IF charLimit # undefined /\ charLimit[1] <= 0 THEN <<>>
    ELSE repoLoop(repos, staged, [res |-> <<>>, currentCharCount |-> 0], charLimit).res

RECURSIVE contentLength(_)
\* items.reduce((count, item) => count + item.content.length, 0)
contentLength(items) ==
    IF items = <<>> THEN 0 ELSE Len(Head(items).content) + contentLength(Tail(items))

\* the unstaged phase run under the whole budget again
remainingCharsNotShared(maxChars, stagedCharCount) == maxChars

\* remainingChars = maxChars !== undefined ? maxChars - stagedCharCount : undefined
remainingChars(maxChars, stagedCharCount) ==
    IF maxChars # undefined THEN Some(maxChars[1] - stagedCharCount) ELSE undefined

\* getChanges(params), params.maxChars given as maxChars
getChanges(maxChars) ==
    IF ~gitApiAvailable THEN <<>>
    ELSE IF repositories = undefined THEN <<>>
    ELSE LET stagedChanges == getRepoChanges(repositories[1], TRUE, maxChars)
             stagedCharCount == contentLength(stagedChanges)
             unstagedChanges == getRepoChanges(repositories[1], FALSE,
                                               remainingChars(maxChars, stagedCharCount))
         IN  stagedChanges \o unstagedChanges

\* the panel calls getChanges
getChangesCalled ==
    \E maxChars \in {undefined} \cup {Some(n) : n \in 0..MaxChars} :
        /\ changes' = Some([maxChars |-> maxChars, result |-> getChanges(maxChars)])
        /\ UNCHANGED <<lifecycleVars, sessionVars, capVars, gitApiAvailable, repositories,
                       symbolVars, selectionVars>>

\* ------------------------------------------------------ session state store

\* a plain object is a function from its own property names to values
emptyObject == <<>>

SessionKeys == {"a", "b"}

SessionValues == {"1", "2"}

\* a property name every plain object inherits from Object.prototype
InheritedKeys == {"constructor"}

\* the objects the panel may pass to storeSessionState
SessionPartials == UNION {[K -> SessionValues] : K \in SUBSET SessionKeys}

\* the key lists the panel may pass to fetchSessionState
FetchKeys == SUBSET (SessionKeys \cup InheritedKeys)

\* `key in object`: true of own and of inherited properties
hasProperty(key, object) == key \in DOMAIN object \/ key \in InheritedKeys

\* object[key]
getProperty(object, key) ==
    IF key \in DOMAIN object THEN object[key] ELSE "Object.prototype." \o key

\* one state read for every endpoint: the first partition there is
currentSessionStateShared ==
    IF DOMAIN sessionStateMap = {} THEN emptyObject
    ELSE sessionStateMap[CHOOSE e \in DOMAIN sessionStateMap : TRUE]

\* this.sessionStateMap.get(this.currentConfig?.endpoint ?? "") ?? {}
currentSessionState ==
    IF endpointOf(currentConfig) \in DOMAIN sessionStateMap
    THEN sessionStateMap[endpointOf(currentConfig)]
    ELSE emptyObject

\* {...sessionState, ...state}
spread(sessionState, state) ==
    [key \in DOMAIN sessionState \cup DOMAIN state |->
        IF key \in DOMAIN state THEN state[key] ELSE sessionState[key]]

\* a fetch that gives nothing when no key list is passed
fetchSessionStateResultKeysOnly(keys) ==
    IF keys = undefined THEN emptyObject
    ELSE [key \in {k \in keys[1] : hasProperty(k, currentSessionState)} |->
             getProperty(currentSessionState, key)]

\* what fetchSessionState(keys) returns
fetchSessionStateResult(keys) ==
    IF keys = undefined THEN currentSessionState
    ELSE [key \in {k \in keys[1] : hasProperty(k, currentSessionState)} |->
             getProperty(currentSessionState, key)]

\* the panel can call the host once a client thread has been created for it
panelConnected == inflight # {} \/ client # undefined

\* the panel calls fetchSessionState(keys)
fetchSessionState ==
    \E keys \in {undefined} \cup {Some(K) : K \in FetchKeys} :
        /\ panelConnected
        /\ fetched' = Some([keys |-> keys, result |-> fetchSessionStateResult(keys)])
        /\ UNCHANGED <<lifecycleVars, sessionStateMap, stored, capVars, gitVars, symbolVars, selectionVars>>

\* the panel calls storeSessionState(state)
storeSessionState ==
    \E state \in SessionPartials :
        /\ panelConnected
        /\ sessionStateMap' =
              [e \in DOMAIN sessionStateMap \cup {endpointOf(currentConfig)} |->
                  IF e = endpointOf(currentConfig)
                  THEN spread(currentSessionState, state)
                  ELSE sessionStateMap[e]]
        /\ stored' = Some(state)
        /\ UNCHANGED <<lifecycleVars, fetched, capVars, gitVars, symbolVars, selectionVars>>

\* -------------------------------------------------------------- lookupSymbol

\* the characters \w matches, of those that occur here
WordChars == {"x", "y", "1"}

\* the characters of a document: two letters and the line break
TextChars == {"x", "y", "\n"}

Texts == UNION {[1..n -> TextChars] : n \in 0..MaxTextLen}

\* the names the panel may ask for
Symbols == {<<"x">>, <<"1", "x">>, <<"x", "-">>}

\* symbol.match(/^[a-zA-Z_][a-zA-Z0-9_]*$/)
isSimpleIdentifier(symbol) ==
    /\ Len(symbol) > 0
    /\ symbol[1] \in {"x", "y"}
    /\ \A i \in 1..Len(symbol) : symbol[i] \in WordChars

\* the indexes of the line breaks of a text
lineBreaks(text) == SelectSeq([i \in 1..Len(text) |-> i], LAMBDA i : text[i] = "\n")

\* document.lineCount
lineCount(text) == Len(lineBreaks(text)) + 1

\* the offset of the first character of a line
lineStart(text, line) == IF line = 0 THEN 0 ELSE lineBreaks(text)[line]

\* the length of a line without its line break
lineLength(text, line) ==
    (IF line = lineCount(text) - 1 THEN Len(text) ELSE lineBreaks(text)[line + 1] - 1)
        - lineStart(text, line)

\* document.validatePosition: a position past the end is the end of the text
validatePosition(text, position) ==
    IF position.line >= lineCount(text)
    THEN [line |-> lineCount(text) - 1,
          character |-> lineLength(text, lineCount(text) - 1)]
    ELSE [line |-> position.line,
          character |-> IF position.character > lineLength(text, position.line)
                        THEN lineLength(text, position.line)
                        ELSE position.character]

\* document.offsetAt(position)
offsetAt(text, position) ==
    LET p == validatePosition(text, position)
    IN  lineStart(text, p.line) + p.character

\* document.positionAt(offset)
positionAt(text, offset) ==
    LET o == IF offset > Len(text) THEN Len(text) ELSE offset
        line == Cardinality({i \in 1..o : text[i] = "\n"})
    IN  [line |-> line, character |-> o - lineStart(text, line)]

\* position.isBefore(other)
isBefore(a, b) == a.line < b.line \/ (a.line = b.line /\ a.character < b.character)

\* new Range(startLine, startCharacter, endLine, endCharacter): start is the
\* earlier of the two positions
Range(startLine, startCharacter, endLine, endCharacter) ==
    LET a == [line |-> startLine, character |-> startCharacter]
        b == [line |-> endLine, character |-> endCharacter]
    IN  IF isBefore(b, a) THEN [start |-> b, end |-> a] ELSE [start |-> a, end |-> b]

\* range.isEmpty
isEmpty(range) == range.start = range.end

\* document.getText(range)
getText(text, range) ==
    SubSeq(text, offsetAt(text, range.start) + 1, offsetAt(text, range.end))

\* the locations a hint may carry: a point at a line, a range, or a value
\* that is no location
HintLocations ==
    {[kind |-> "range", start |-> [line |-> l, character |-> 0],
      end |-> [line |-> l, character |-> 0]] : l \in 0..2}
    \cup {[kind |-> "range", start |-> [line |-> 0, character |-> 0],
           end |-> [line |-> 0, character |-> 1]],
          [kind |-> "range", start |-> [line |-> 0, character |-> 1],
           end |-> [line |-> 0, character |-> 2]],
          [kind |-> "range", start |-> [line |-> 1, character |-> 0],
           end |-> [line |-> 2, character |-> 0]],
          [kind |-> "unknown", start |-> [line |-> 0, character |-> 0],
           end |-> [line |-> 0, character |-> 0]]}

\* chatPanelLocationToVSCodeRange of ./utils: the range of a location, or
\* null for a value that is no location
chatPanelLocationToVSCodeRange(location) ==
    IF location.kind = "range"
    THEN Some(Range(location.start.line, location.start.character,
                    location.end.line, location.end.character))
    ELSE undefined

\* chatPanelFilepathToLocalUri of ./utils: the uri of a file path, or null
chatPanelFilepathToLocalUri(filepath) ==
    IF filepath \in DOMAIN documents THEN Some(filepath) ELSE undefined

\* the hints the panel may pass: no file path, a file, a file that resolves
\* to no uri, a file that fails to open
Hints ==
    [filepath : {undefined, Some("f"), Some("g"), Some("none"), Some("locked")},
     location : {undefined} \cup {Some(l) : l \in HintLocations}]

\* a hint naming a whole file
FileHints == [filepath : {Some("f"), Some("g")}, location : {undefined}]

\* no hints, one hint, or a hint followed by a hint naming a whole file
HintLists ==
    {undefined, Some(<<>>)} \cup {Some(<<h>>) : h \in Hints}
        \cup {Some(<<h, g>>) : h \in Hints, g \in FileHints}

\* new RegExp(`\\b${symbol}\\b`, "g") matches content at index i
matchesAt(content, symbol, i) ==
    /\ i + Len(symbol) <= Len(content)
    /\ SubSeq(content, i + 1, i + Len(symbol)) = symbol
    /\ (i = 0 \/ content[i] \notin WordChars)
    /\ (i + Len(symbol) = Len(content) \/ content[i + Len(symbol) + 1] \notin WordChars)

\* vscode.executeDefinitionProvider at an offset of a file: two locations
\* where a definition is found, none elsewhere
executeDefinitionProvider(file, offset) ==
    IF [file |-> file, offset |-> offset] \in definitions
    THEN <<[uri |-> file, nth |-> 1], [uri |-> file, nth |-> 2]>>
    ELSE <<>>

RECURSIVE matchLoop(_, _, _, _, _, _, _)
\* `while ((match = matchRegExp.exec(content)) !== null)`: the matches from
\* index i on; queried is the offsets the definition provider was asked at
matchLoop(file, text, content, offsetInDocument, symbol, i, queried) ==
    IF i >= Len(content) THEN [info |-> undefined, queried |-> queried]
    ELSE IF ~matchesAt(content, symbol, i)
    THEN matchLoop(file, text, content, offsetInDocument, symbol, i + 1, queried)
    ELSE LET offset == offsetInDocument + i
             locations == executeDefinitionProvider(file, offset)
         IN  IF Len(locations) > 0
             THEN [info |-> Some([source |-> [filepath |-> file,
                                              location |-> positionAt(text, offset)],
                                  target |-> locations[1]]),
                   queried |-> Append(queried, offset)]
             ELSE matchLoop(file, text, content, offsetInDocument, symbol, i + Len(symbol),
                            Append(queried, offset))

\* findSymbolInContent: the first match at which the definition provider
\* answers with a location, and the offsets it was asked at
findSymbolInContent(file, text, content, offsetInDocument, symbol) ==
    matchLoop(file, text, content, offsetInDocument, symbol, 0, <<>>)

\* the body of the loop for a hint whose document is open: the symbol found
\* and the scans made, each with the offsets queried
lookupInDocument(file, text, hint, symbol) ==
    LET location == IF hint.location = undefined THEN undefined
                    ELSE chatPanelLocationToVSCodeRange(hint.location[1])
        inLocation ==
            IF location = undefined THEN [info |-> undefined, scans |-> <<>>]
            ELSE LET range == IF ~isEmpty(location[1]) THEN location[1]
                              ELSE Range(location[1].start.line, 0, lineCount(text), 0)
                     scan == findSymbolInContent(file, text, getText(text, range),
                                                 offsetAt(text, range.start), symbol)
                 IN  [info |-> scan.info,
                      scans |-> <<[file |-> file, offsets |-> scan.queried]>>]
    IN  IF inLocation.info # undefined THEN inLocation
        ELSE LET scan == findSymbolInContent(file, text, text, 0, symbol)
             IN  [info |-> scan.info,
                  scans |-> Append(inLocation.scans,
                                   [file |-> file, offsets |-> scan.queried])]

RECURSIVE hintLoop(_, _, _, _, _)
\* for (const hint of hints ?? []): the result (null is undefined), the
\* index of the hint that gave it, the file paths opened on the way and the
\* scans made
hintLoop(symbol, hints, k, opened, scans) ==
    IF k > Len(hints)
    THEN [result |-> undefined, hint |-> 0, opened |-> opened, queried |-> scans]
    ELSE LET hint == hints[k]
             uri == IF hint.filepath = undefined THEN undefined
                    ELSE chatPanelFilepathToLocalUri(hint.filepath[1])
         IN  IF uri = undefined THEN hintLoop(symbol, hints, k + 1, opened, scans)
             ELSE IF documents[uri[1]] = undefined
                  THEN hintLoop(symbol, hints, k + 1, Append(opened, uri[1]), scans)
                  ELSE LET found == lookupInDocument(uri[1], documents[uri[1]][1],
                                                     hint, symbol)
                           symbolInfo == found.info
                       IN  IF symbolInfo # undefined
                           THEN [result |-> symbolInfo, hint |-> k,
                                 opened |-> Append(opened, uri[1]),
                                 queried |-> scans \o found.scans]
                           ELSE hintLoop(symbol, hints, k + 1, Append(opened, uri[1]),
                                         scans \o found.scans)

\* a lookup that gives up after the first hint
lookupSymbolFirstHint(symbol, hints) ==
    IF ~isSimpleIdentifier(symbol)
    THEN [result |-> undefined, hint |-> 0, opened |-> <<>>, queried |-> <<>>]
    ELSE hintLoop(symbol,
                  IF hints = undefined \/ hints = Some(<<>>) THEN <<>> ELSE <<hints[1][1]>>,
                  1, <<>>, <<>>)

\* lookupSymbol(symbol, hints)
lookupSymbol(symbol, hints) ==
    IF ~isSimpleIdentifier(symbol)
    THEN [result |-> undefined, hint |-> 0, opened |-> <<>>, queried |-> <<>>]
    ELSE hintLoop(symbol, IF hints = undefined THEN <<>> ELSE hints[1], 1, <<>>, <<>>)

\* the panel calls lookupSymbol(symbol, hints); the call has no effect on
\* the object, and one call is recorded
lookupSymbolCalled ==
    \E symbol \in Symbols, hints \in HintLists :
        /\ lookedUp = undefined
        /\ lookedUp' = Some([symbol |-> symbol, hints |-> hints,
                             returned |-> lookupSymbol(symbol, hints)])
        /\ UNCHANGED <<lifecycleVars, sessionVars, capVars, gitVars, documents, definitions,
                       activeTextEditor, documentSymbols, documentSymbolsRejects,
                       workspaceSymbols, listed, selectionVars>>

\* --------------------------------------------------------------- listSymbols

\* limit = 20 when params.limit is missing, zero or negative
DefaultLimit == 20

\* String.prototype.toLowerCase on the letters that occur here
toLowerCase(str) == [i \in 1..Len(str) |-> IF str[i] = "A" THEN "a" ELSE str[i]]

\* String.prototype.startsWith
startsWith(str, search) ==
    Len(search) <= Len(str) /\ SubSeq(str, 1, Len(search)) = search

\* String.prototype.includes
includes(str, search) ==
    \E i \in 0..(Len(str) - Len(search)) : SubSeq(str, i + 1, i + Len(search)) = search

\* the file path of the active document and of another file, as the objects
\* localUriToChatPanelFilepath gives
ActiveFilepath == [kind |-> "uri", uri |-> "active"]

OtherFilepath == [kind |-> "uri", uri |-> "other"]

\* `${item.filepath}`: the string conversion of an object
filepathToString(filepath) == "[object Object]"

\* vscodeRangeToChatPanelLineRange of ./utils: lines counted from 1
vscodeRangeToChatPanelLineRange(range) == [start |-> range.start + 1, end |-> range.end + 1]

\* symbolToItem
symbolToItem(symbol, filepath) ==
    [filepath |-> filepath, range |-> vscodeRangeToChatPanelLineRange(symbol.range),
     label |-> symbol.name]

RECURSIVE getDocumentSymbolsDepthFirst(_, _, _)
\* a traversal that visits the children of a symbol before its siblings
getDocumentSymbolsDepthFirst(queue, result, limit) ==
    IF ~(Len(queue) > 0 /\ Len(result) < limit) THEN result
    ELSE LET current == Head(queue)
             converted == [name |-> current.name, containerName |-> current.detail,
                           range |-> current.range]
         IN  IF Len(result) + 1 >= limit THEN Append(result, converted)
             ELSE getDocumentSymbolsDepthFirst(current.children \o Tail(queue),
                                               Append(result, converted), limit)

RECURSIVE getDocumentSymbolsLoop(_, _, _)
\* the while loop of getDocumentSymbols: breadth first, up to limit symbols
getDocumentSymbolsLoop(queue, result, limit) ==
    IF ~(Len(queue) > 0 /\ Len(result) < limit) THEN result
    ELSE LET current == Head(queue)
             converted == [name |-> current.name, containerName |-> current.detail,
                           range |-> current.range]
         IN  IF Len(result) + 1 >= limit THEN Append(result, converted)
             ELSE getDocumentSymbolsLoop(Tail(queue) \o current.children,
                                         Append(result, converted), limit)

\* getDocumentSymbols(editor)
getDocumentSymbols(limit) == getDocumentSymbolsLoop(documentSymbols, <<>>, limit)

\* getWorkspaceSymbols(query): the items of the provider's symbols, or
\* nothing if the provider fails
getWorkspaceSymbols(query) ==
    IF workspaceSymbols = undefined THEN <<>>
    ELSE [k \in 1..Len(workspaceSymbols[1]) |->
             symbolToItem(workspaceSymbols[1][k], workspaceSymbols[1][k].filepath)]

\* filterSymbols(symbols, query)
filterSymbols(symbols, query) ==
    SelectSeq(symbols,
              LAMBDA sym : \/ includes(toLowerCase(sym.name), toLowerCase(query))
                           \/ includes(toLowerCase(sym.containerName), toLowerCase(query)))

\* the key of an item in mergeResults; the parts are joined with "-", which
\* no label here contains
itemKey(item) ==
    <<filepathToString(item.filepath), item.label, item.range.start, item.range.end>>

RECURSIVE uniqueItemsLoop(_, _, _)
\* the loop over allItems in mergeResults
uniqueItemsLoop(allItems, seen, uniqueItems) ==
    IF allItems = <<>> THEN uniqueItems
    ELSE IF itemKey(Head(allItems)) \in seen
         THEN uniqueItemsLoop(Tail(allItems), seen, uniqueItems)
         ELSE uniqueItemsLoop(Tail(allItems), seen \cup {itemKey(Head(allItems))},
                               Append(uniqueItems, Head(allItems)))

\* getMatchScore(label)
getMatchScore(label, query) ==
    IF toLowerCase(label) = toLowerCase(query) THEN 3
    ELSE IF startsWith(toLowerCase(label), toLowerCase(query)) THEN 2
    ELSE IF includes(toLowerCase(label), toLowerCase(query)) THEN 1
    ELSE 0

\* the comparator passed to uniqueItems.sort
compareItems(a, b, query) ==
    IF getMatchScore(b.label, query) # getMatchScore(a.label, query)
    THEN getMatchScore(b.label, query) - getMatchScore(a.label, query)
    ELSE Len(a.label) - Len(b.label)

RECURSIVE insertSorted(_, _, _)
\* item put behind every item of a sorted list that does not compare after it
insertSorted(sorted, item, query) ==
    IF sorted = <<>> THEN <<item>>
    ELSE IF compareItems(Head(sorted), item, query) <= 0
         THEN <<Head(sorted)>> \o insertSorted(Tail(sorted), item, query)
         ELSE <<item>> \o sorted

\* a sort that leaves the items as they are
sortNothing(items, query) == items

RECURSIVE sort(_, _)
\* Array.prototype.sort with the comparator: a stable sort
sort(items, query) ==
    IF items = <<>> THEN <<>>
    ELSE insertSorted(sort(SubSeq(items, 1, Len(items) - 1), query), items[Len(items)], query)

\* Array.prototype.slice(0, limit)
slice(items, limit) == SubSeq(items, 1, IF Len(items) < limit THEN Len(items) ELSE limit)

\* mergeResults(local, workspace, query, limit)
mergeResults(local, workspace, query, limit) ==
    slice(sort(uniqueItemsLoop(local \o workspace, {}, <<>>), query), limit)

\* the try block of listSymbols: what it returns, or undefined when an error
\* is thrown in it
listSymbolsTry(query, lim) ==
    IF documentSymbolsRejects THEN undefined
    ELSE LET defaultSymbols == getDocumentSymbols(lim)
         IN  IF query = <<>>
             THEN LET taken == slice(defaultSymbols, lim)
                  IN  Some([k \in 1..Len(taken) |-> symbolToItem(taken[k], ActiveFilepath)])
             ELSE LET filteredDefault == filterSymbols(defaultSymbols, query)
                  IN  Some(mergeResults([k \in 1..Len(filteredDefault) |->
                                            symbolToItem(filteredDefault[k], ActiveFilepath)],
                                        getWorkspaceSymbols(query), query, lim))

\* a call that gives up when the workspace search fails
listSymbolsAborting(query, limit) ==
    IF ~activeTextEditor \/ workspaceSymbols = undefined THEN <<>>
    ELSE LET lim == IF limit = undefined \/ limit[1] = 0 \/ limit[1] < 0
                    THEN DefaultLimit ELSE limit[1]
             tried == listSymbolsTry(query, lim)
         IN  IF tried = undefined THEN <<>> ELSE tried[1]

\* listSymbols({query, limit}): the catch gives an empty list
listSymbols(query, limit) ==
    IF ~activeTextEditor THEN <<>>
    ELSE LET lim == IF limit = undefined \/ limit[1] = 0 \/ limit[1] < 0
                    THEN DefaultLimit ELSE limit[1]
             tried == listSymbolsTry(query, lim)
         IN  IF tried = undefined THEN <<>> ELSE tried[1]

\* the queries and limits the panel may pass
Queries == {<<>>, <<"a">>, <<"a", "b">>}

Limits == {undefined} \cup {Some(n) : n \in (-1)..MaxLimit}

\* the panel calls listSymbols(params); the call has no effect on the
\* object, and one call is recorded
listSymbolsCalled ==
    \E query \in Queries, limit \in Limits :
        /\ listed = undefined
        /\ listed' = Some([query |-> query, limit |-> limit,
                           returned |-> listSymbols(query, limit)])
        /\ UNCHANGED <<lifecycleVars, sessionVars, capVars, gitVars, documents, definitions,
                       lookedUp, activeTextEditor, documentSymbols, documentSymbolsRejects,
                       workspaceSymbols, selectionVars>>

\* the ranges of symbols, in lines
SymbolRanges == {[start |-> 0, end |-> 0], [start |-> 0, end |-> 1]}

\* a DocumentSymbol without children
LeafSymbols(names, details) ==
    [name : names, detail : details, range : SymbolRanges, children : {<<>>}]

\* the sequences of at most n elements of a set
SeqUpTo(S, n) == UNION {[1..k -> S] : k \in 0..n}

\* the symbol trees of a document: each top-level symbol has up to two
\* children
SymbolTrees ==
    SeqUpTo([name : {<<"a">>, <<"b">>}, detail : {<<>>},
             range : {[start |-> 0, end |-> 0]},
             children : SeqUpTo([name : {<<"a">>, <<"b">>}, detail : {<<>>},
                                 range : {[start |-> 0, end |-> 0]},
                                 children : {<<>>}], 2)],
            MaxSymbols)

\* the labels that give every match score
Labels == {<<"a">>, <<"A">>, <<"a", "b">>, <<"b", "a">>}

\* no, one or two symbols of the active document, without children
LocalSymbolLists ==
    LET S == LeafSymbols(Labels, {<<>>, <<"a">>})
    IN  {<<>>} \cup {<<x>> : x \in S} \cup {<<x, y>> : x \in S, y \in S}

\* no, one or two symbols of the workspace
WorkspaceSymbolLists ==
    LET S == [filepath : {ActiveFilepath, OtherFilepath}, name : Labels, range : SymbolRanges]
    IN  {<<>>} \cup {<<x>> : x \in S} \cup {<<x, y>> : x \in S, y \in S}

\* one or two symbols of the active document with the labels a and ab
FewLocalSymbolLists ==
    LET S == LeafSymbols({<<"a">>, <<"a", "b">>}, {<<>>})
    IN  {<<x>> : x \in S} \cup {<<x, y>> : x \in S, y \in S}

\* no or one symbol of the workspace
FewWorkspaceSymbolLists ==
    {<<>>} \cup {<<x>> : x \in [filepath : {ActiveFilepath, OtherFilepath},
                                name : {<<"a">>, <<"a", "b">>}, range : SymbolRanges]}

\* ------------------------------------------------------ selection changes

\* the editors an event may carry: an output channel, an editor that is not
\* valid for syncing, and two file editors
Editors == {"output", "invalid", "file1", "file2"}

\* the events of the log so far
eventCount == Cardinality({i \in 1..Len(selectionLog) : selectionLog[i].kind = "event"})

\* a debounce that keeps the arguments of the first call of a burst
debounceKeepFirst(pending, args) == IF pending # undefined THEN pending ELSE Some(args)

\* debounce(fn, 100) is called: the timer is set again and the arguments of
\* this call replace those of the call before
debounceCall(pending, args) == Some(args)

\* a listener of init receives an event for editor; accepted is its condition
editorEvent(source, editor, accepted) ==
    /\ webview # undefined
    /\ eventCount < MaxEvents
    /\ selectionLog' = Append(selectionLog, [kind |-> "event", source |-> source,
                                               editor |-> editor, accepted |-> accepted])
    /\ debounced' = IF accepted
                    THEN debounceCall(debounced, [editor |-> editor,
                                                  event |-> Len(selectionLog) + 1])
                    ELSE debounced
    /\ UNCHANGED <<lifecycleVars, sessionVars, capVars, gitVars, symbolVars, contextPending,
                   selectionCalls>>

\* window.onDidChangeActiveTextEditor fires
didChangeActiveTextEditor ==
    \E editor \in {undefined} \cup {Some(e) : e \in Editors} :
        editorEvent("activeTextEditor", editor, client # undefined)

\* window.onDidChangeTextEditorSelection fires, for the active editor or not
didChangeTextEditorSelection ==
    \E editor \in {Some("file1"), Some("file2")}, isActive \in BOOLEAN :
        editorEvent("selection", editor, isActive /\ client # undefined)

\* `await this.client?.["0.8.0"].updateActiveSelection(context)`
updateActiveSelectionCall(event, context) ==
    [event |-> event, context |-> context,
     result |-> IF client = undefined THEN "skipped" ELSE via080(client[1])]

\* the debounce timer expires: notifyActiveEditorSelectionChange runs to its
\* first await
debounceElapsed ==
    /\ debounced # undefined
    /\ debounced' = undefined
    /\ selectionLog' = Append(selectionLog, [kind |-> "elapsed", source |-> "timer",
                                               editor |-> debounced[1].editor,
                                               accepted |-> TRUE])
    /\ LET editor == debounced[1].editor
       IN  IF editor = Some("output")
           THEN UNCHANGED <<contextPending, selectionCalls>>
           ELSE IF editor = undefined \/ editor = Some("invalid")
           THEN /\ selectionCalls' = Append(selectionCalls,
                                            updateActiveSelectionCall(debounced[1].event, "null"))
                /\ UNCHANGED contextPending
           ELSE /\ contextPending' = contextPending \cup {debounced[1]}
                /\ UNCHANGED selectionCalls
    /\ UNCHANGED <<lifecycleVars, sessionVars, capVars, gitVars, symbolVars>>

\* `await getEditorContext(editor, ...)` completes and the context is passed
\* to the panel
editorContextResolved ==
    \E p \in contextPending :
        /\ contextPending' = contextPending \ {p}
        /\ selectionCalls' = Append(selectionCalls,
                                    updateActiveSelectionCall(p.event, p.editor[1]))
        /\ UNCHANGED <<lifecycleVars, sessionVars, capVars, gitVars, symbolVars, debounced,
                       selectionLog>>

\* ------------------------------------------------------------ specification

\* the object after construction, before init
InitHost ==
    /\ webview = undefined
    /\ clientGen = 0
    /\ currentConfig = undefined
    /\ reloadCount = 0
    /\ createClientTimeout = undefined
    /\ pendingActions = <<>>
    /\ sessionStateMap = <<>>
    /\ html = [page |-> "none", reloadCount |-> 0, text |-> ""]
    /\ emitted = "none"
    /\ timers = {}
    /\ timerCount = 0
    /\ webviewCount = 0
    /\ statusCurrent = undefined
    /\ agentConfig = undefined
    /\ inflight = {}
    /\ initPending = {}
    /\ calls = <<>>
    /\ started = <<>>
    /\ resolved = undefined
    /\ shown = {}
    /\ timeouts = {}
    /\ apiVersions = undefined
    /\ terminalContextEnabled = undefined
    /\ changes = undefined
    /\ fetched = undefined
    /\ stored = undefined
    /\ lookedUp = undefined
    /\ listed = undefined
    /\ debounced = undefined
    /\ contextPending = {}
    /\ selectionLog = <<>>
    /\ selectionCalls = <<>>

\* a workspace with no files
InitWorkspace ==
    /\ documents = <<>>
    /\ definitions = {}
    /\ activeTextEditor = FALSE
    /\ documentSymbols = <<>>
    /\ documentSymbolsRejects = FALSE
    /\ workspaceSymbols = Some(<<>>)

Init ==
    /\ InitHost
    /\ InitWorkspace
    /\ client = undefined
    /\ gitApiAvailable = TRUE
    /\ repositories = Some(<<>>)

\* the lifecycle: page loads, handle creation, the connect timeout
Next ==
    \/ init
    \/ dispose
    \/ statusDidChange
    \/ chatIframeLoaded
    \/ connectTimeout
    \/ createClientResolved
    \/ initCompleted
    \/ initFailed

Spec == Init /\ [][Next]_vars

\* the deferred action queue: host-to-panel calls around page loads and
\* handle creation
NextQueue ==
    \/ init
    \/ dispose
    \/ statusDidChange
    \/ createClientResolved
    \/ setActiveSelection
    \/ addRelevantContext
    \/ executeCommand
    \/ navigate

SpecQueue == Init /\ [][NextQueue]_vars

\* the capability check, on every handle over VersionKeys
InitCapability ==
    /\ InitHost
    /\ InitWorkspace
    /\ client \in {undefined} \cup {Some(h) : h \in SUBSET VersionKeys}
    /\ gitApiAvailable = TRUE
    /\ repositories = Some(<<>>)

NextCapability ==
    \/ readApiVersions
    \/ readTerminalContextEnabled

SpecCapability == InitCapability /\ [][NextCapability]_vars

\* the capability check and the calls it gates, on every handle over
\* VersionKeys
NextDispatch ==
    \/ readTerminalContextEnabled
    \/ addRelevantContext
    \/ executeCommand

SpecDispatch == InitCapability /\ [][NextDispatch]_vars

\* change collection, on every list of repositories
InitChanges ==
    /\ InitHost
    /\ InitWorkspace
    /\ client = undefined
    /\ gitApiAvailable \in BOOLEAN
    /\ repositories \in {undefined} \cup {Some(l) : l \in RepositoryLists}

NextChanges == getChangesCalled

SpecChanges == InitChanges /\ [][NextChanges]_vars

\* symbol lookup, on every text of file f and every set of definitions in it
InitLookup ==
    /\ InitHost
    /\ client = undefined
    /\ gitApiAvailable = TRUE
    /\ repositories = Some(<<>>)
    /\ \E text \in Texts :
          documents = [file \in {"f", "g", "locked"} |->
                          IF file = "f" THEN Some(text)
                          ELSE IF file = "g" THEN Some(<<"x">>)
                          ELSE undefined]
    /\ \E offsets \in SUBSET (0..(MaxTextLen - 1)) :
          definitions = {[file |-> "f", offset |-> o] : o \in offsets}
                            \cup {[file |-> "g", offset |-> 0]}
    /\ activeTextEditor = FALSE
    /\ documentSymbols = <<>>
    /\ documentSymbolsRejects = FALSE
    /\ workspaceSymbols = Some(<<>>)

NextLookup == lookupSymbolCalled

SpecLookup == InitLookup /\ [][NextLookup]_vars

\* the symbols of the active document, on every symbol tree
InitSymbols ==
    /\ InitHost
    /\ client = undefined
    /\ gitApiAvailable = TRUE
    /\ repositories = Some(<<>>)
    /\ documents = <<>>
    /\ definitions = {}
    /\ activeTextEditor \in BOOLEAN
    /\ documentSymbols \in SymbolTrees
    /\ documentSymbolsRejects = FALSE
    /\ workspaceSymbols = Some(<<>>)

NextSymbols == listSymbolsCalled

SpecSymbols == InitSymbols /\ [][NextSymbols]_vars

\* the merge of local and workspace symbols, on every pair of short lists
InitMerge ==
    /\ InitHost
    /\ client = undefined
    /\ gitApiAvailable = TRUE
    /\ repositories = Some(<<>>)
    /\ documents = <<>>
    /\ definitions = {}
    /\ activeTextEditor = TRUE
    /\ documentSymbols \in LocalSymbolLists
    /\ documentSymbolsRejects = FALSE
    /\ workspaceSymbols \in {undefined} \cup {Some(l) : l \in WorkspaceSymbolLists}

NextMerge == listSymbolsCalled

SpecMerge == InitMerge /\ [][NextMerge]_vars

\* listSymbols with a provider that fails, or with no active editor
InitDegrade ==
    /\ InitHost
    /\ client = undefined
    /\ gitApiAvailable = TRUE
    /\ repositories = Some(<<>>)
    /\ documents = <<>>
    /\ definitions = {}
    /\ activeTextEditor \in BOOLEAN
    /\ documentSymbols \in FewLocalSymbolLists
    /\ documentSymbolsRejects \in BOOLEAN
    /\ workspaceSymbols \in {undefined} \cup {Some(l) : l \in FewWorkspaceSymbolLists}

NextDegrade == listSymbolsCalled

SpecDegrade == InitDegrade /\ [][NextDegrade]_vars

\* the reaction to the host status, on every kind of status and config
NextStatus ==
    \/ init
    \/ statusDidChangeAny
    \/ createClientResolved
    \/ chatIframeLoaded
    \/ connectTimeout

SpecStatus == Init /\ [][NextStatus]_vars

\* the debounced selection notifications around page loads and handle
\* creation
NextSelection ==
    \/ init
    \/ statusDidChange
    \/ createClientResolved
    \/ didChangeActiveTextEditor
    \/ didChangeTextEditorSelection
    \/ debounceElapsed
    \/ editorContextResolved

SpecSelection == Init /\ [][NextSelection]_vars

\* the status check of init, on every status info
NextCheck ==
    \/ init
    \/ statusDidChangeEvery

SpecCheck == Init /\ [][NextCheck]_vars

\* page renders over a longer run, with dispose and a second init
NextRender ==
    \/ initAgain
    \/ dispose
    \/ statusDidChangeAgain
    \/ chatIframeLoaded
    \/ connectTimeout
    \/ createClientResolved

SpecRender == Init /\ [][NextRender]_vars

\* error pages and the status changes that follow them
NextRecover ==
    \/ init
    \/ statusDidChangeAgain
    \/ statusDidChangeHealthy
    \/ chatIframeLoaded
    \/ connectTimeout
    \/ createClientResolved

SpecRecover == Init /\ [][NextRecover]_vars

\* the session state store, with the page loads that switch the endpoint
NextSession ==
    \/ init
    \/ statusDidChange
    \/ dispose
    \/ fetchSessionState
    \/ storeSessionState

SpecSession == Init /\ [][NextSession]_vars

\* the session state store across reloads, error pages and endpoint switches
NextReload ==
    \/ init
    \/ statusDidChangeAgain
    \/ fetchSessionState
    \/ storeSessionState

SpecReload == Init /\ [][NextReload]_vars

\* ------------------------------------------------------------------ claims

\* the ids of a sequence of queued closures or of started closures
Ids(q) == [k \in 1..Len(q) |-> q[k].id]

\* the ids of the calls that were enqueued, in the order they were made
Enqueued == SelectSeq([i \in 1..Len(calls) |-> i], LAMBDA i : calls[i].path = "queued")

\* C1: every setActiveSelection, addRelevantContext or executeCommand call
\* made while no handle exists is enqueued; the closures started by flushes,
\* followed by those still queued, are exactly the enqueued calls in the
\* order they were enqueued (each started once, none started again by a
\* later flush); and a closure is started only with the handle set.
C1_QueuedCallsStartedOnceInOrder ==
    /\ \A i \in DOMAIN calls :
          (calls[i].op # "navigate" /\ ~calls[i].handle) => calls[i].path = "queued"
    /\ Ids(started) \o Ids(pendingActions) = Enqueued
    /\ \A k \in DOMAIN started : started[k].handle
    /\ \A i \in DOMAIN calls :
          calls[i].path = "queued" =>
             (calls[i].result = "pending" <=> \E k \in DOMAIN pendingActions : pendingActions[k].id = i)

\* two calls were queued and started by two different flushes
C1_Witness ==
    /\ Len(started) = 2
    /\ started[1].gen # started[2].gen
    /\ pendingActions = <<>>

\* C2: every host operation, navigate included, is enqueued when it is
\* called while no handle exists.
C2_EveryCallWithoutHandleIsEnqueued ==
    \A i \in DOMAIN calls : ~calls[i].handle => calls[i].path = "queued"

\* C3: an operation whose owning version key is absent from the handle is
\* skipped without an error: on the direct path, on the queued path and in
\* the ready transition.
C3_MissingVersionKeyRaisesNoError ==
    /\ \A i \in DOMAIN calls : calls[i].result # "TypeError"
    /\ resolved # undefined => resolved[1].init # "TypeError"

\* what each key of VersionKeys denotes, written out by hand; a key that is
\* no semantic version has no entry
KeyMeaning ==
    (V080 :> <<0, 8, 0>>) @@ (V090 :> <<0, 9, 0>>) @@ (V0100 :> <<0, 10, 0>>)
        @@ (V0110 :> <<0, 11, 0>>) @@ (V100 :> <<1, 0, 0>>)

\* C4: isTerminalContextEnabled is true iff a handle exists and one of its
\* valid semantic-version keys is at or above 0.10.0 (such a key exposes the
\* terminal operations, capabilities being additive); getApiVersions returns
\* exactly the handle's valid keys.
C4_TerminalContextEnabledIffCompatibleKey ==
    /\ terminalContextEnabled # undefined =>
          (terminalContextEnabled[1] <=>
              /\ client # undefined
              /\ \E w \in client[1] \cap DOMAIN KeyMeaning :
                    KeyMeaning[w][1] > 0 \/ (KeyMeaning[w][1] = 0 /\ KeyMeaning[w][2] >= 10))
    /\ apiVersions # undefined =>
          apiVersions[1] = (IF client = undefined THEN {} ELSE client[1] \cap DOMAIN KeyMeaning)

\* the check is true on a handle whose only key at or above 0.10.0 is 0.11.0,
\* beside a lower key and a key that is no version
C4_Witness ==
    /\ client = Some({V080, V0110, KeyShort})
    /\ terminalContextEnabled = Some(TRUE)
    /\ apiVersions = Some({V080, V0110})

\* C5: a handle creation that completes after a newer page load does not set
\* the handle (nor emit "ready", flush the queue or call init): every
\* completion that did belongs to the load that is current.
C5_StaleCompletionMutatesNothing ==
    resolved # undefined => resolved[1].gen = resolved[1].at

\* C6: on each completed handle creation the queue is flushed first, then
\* init is invoked on the panel, once, and showChatPanel is posted only for
\* a load whose init completed.
C6_ReadyTransitionFlushInitShow ==
    /\ resolved # undefined => (resolved[1].queued = 0 /\ resolved[1].init = "delivered")
    /\ \A m \in shown : \A p \in initPending : p.gen # m.gen

\* C7: once the handshake of the current load has completed, no connect
\* timer replaces the ready panel with an error page.
C7_NoErrorPageFromTimerAfterHandshake ==
    \A t \in timeouts : t.ready => t.page # "error"

\* the contents of a list of change items
Contents(items) == [k \in 1..Len(items) |-> items[k].content]

RECURSIVE Chars(_)
\* the total length of a list of diffs
Chars(diffs) == IF diffs = <<>> THEN 0 ELSE Len(Head(diffs)) + Chars(Tail(diffs))

RECURSIVE AllDiffs(_, _)
\* the diffs of a phase over all repositories, in repository and diff order
AllDiffs(repos, staged) ==
    IF repos = <<>> THEN <<>>
    ELSE (IF getDiff(Head(repos), staged) = undefined THEN <<>>
          ELSE getDiff(Head(repos), staged)[1]) \o AllDiffs(Tail(repos), staged)

RECURSIVE FitPrefix(_, _)
\* the diffs taken in order until one does not fit the budget
FitPrefix(diffs, budget) ==
    IF diffs = <<>> \/ Len(Head(diffs)) > budget THEN <<>>
    ELSE <<Head(diffs)>> \o FitPrefix(Tail(diffs), budget - Len(Head(diffs)))

\* the last getChanges call had a budget and repositories to read
ChangesUnderBudget ==
    /\ changes # undefined
    /\ changes[1].maxChars # undefined
    /\ gitApiAvailable
    /\ repositories # undefined

\* C8: with a budget maxChars >= 0 the staged diffs come first, the unstaged
\* phase runs under maxChars minus the length of the returned staged diffs
\* (no unstaged diff longer than that remainder is returned, and the first
\* unstaged diff is returned if it fits it), and the returned diffs never
\* total more than maxChars.
C8_BudgetSharedAcrossPhases ==
    (changes # undefined /\ changes[1].maxChars # undefined) =>
        LET maxChars == changes[1].maxChars[1]
            result == changes[1].result
            stagedItems == SelectSeq(result, LAMBDA item : item.staged)
            unstagedItems == SelectSeq(result, LAMBDA item : ~item.staged)
            remainder == maxChars - Chars(Contents(stagedItems))
        IN  /\ result = stagedItems \o unstagedItems
            /\ Chars(Contents(result)) <= maxChars
            /\ Chars(Contents(unstagedItems)) <= remainder
            /\ \A k \in 1..Len(unstagedItems) : Len(unstagedItems[k].content) <= remainder
            /\ (gitApiAvailable /\ repositories # undefined) =>
                  LET unstagedDiffs == AllDiffs(repositories[1], FALSE)
                  IN  (unstagedDiffs # <<>> /\ Len(unstagedDiffs[1]) <= remainder) =>
                          (unstagedItems # <<>> /\ unstagedItems[1].content = unstagedDiffs[1])

\* the spec's example scaled by 20: maxChars 5, staged diffs of 4 characters
\* and one unstaged diff of 2 return the staged diffs alone
C8_Witness ==
    /\ gitApiAvailable
    /\ repositories = Some(<< [staged |-> Some(<< <<"d", "d">>, <<"d", "d">> >>),
                              unstaged |-> Some(<< <<"d", "d">> >>)] >>)
    /\ changes # undefined
    /\ changes[1].maxChars = Some(5)
    /\ changes[1].result = << [content |-> <<"d", "d">>, staged |-> TRUE],
                              [content |-> <<"d", "d">>, staged |-> TRUE] >>

\* C9: in each phase the diffs returned are the diffs of all repositories in
\* list order up to the first one that does not fit the phase budget; nothing
\* after that diff is collected, in that repository or a later one.
C9_FirstFitOrStopPerPhase ==
    ChangesUnderBudget =>
        LET maxChars == changes[1].maxChars[1]
            result == changes[1].result
            stagedItems == SelectSeq(result, LAMBDA item : item.staged)
            unstagedItems == SelectSeq(result, LAMBDA item : ~item.staged)
            remainder == maxChars - Chars(Contents(stagedItems))
        IN  /\ Contents(stagedItems) = FitPrefix(AllDiffs(repositories[1], TRUE), maxChars)
            /\ Contents(unstagedItems) = FitPrefix(AllDiffs(repositories[1], FALSE), remainder)

\* C10: fetchSessionState(keys) returns exactly the entries of the current
\* endpoint's state whose key is in keys (a key the state does not hold is
\* absent from the result), fetchSessionState() returns all entries, and
\* storeSessionState leaves the shallow merge of the state and its argument.
C10_FetchReturnsStoredEntriesOnly ==
    [][/\ fetched' # fetched =>
             fetched'[1].result =
                 IF fetched'[1].keys = undefined THEN currentSessionState
                 ELSE [key \in fetched'[1].keys[1] \cap DOMAIN currentSessionState |->
                          currentSessionState[key]]
       /\ sessionStateMap' # sessionStateMap =>
             /\ endpointOf(currentConfig) \in DOMAIN sessionStateMap'
             /\ DOMAIN sessionStateMap'[endpointOf(currentConfig)] =
                   DOMAIN currentSessionState \cup DOMAIN stored'[1]
             /\ \A key \in DOMAIN sessionStateMap'[endpointOf(currentConfig)] :
                   sessionStateMap'[endpointOf(currentConfig)][key] =
                      IF key \in DOMAIN stored'[1] THEN stored'[1][key]
                      ELSE currentSessionState[key]]_vars

\* the partition key of the session state at this moment
PartitionKey == IF currentConfig = undefined THEN "" ELSE currentConfig[1].endpoint

\* C11: session state is isolated per endpoint: a storeSessionState call
\* writes the partition of the endpoint that is current (the empty string
\* with no current config) and leaves every other partition as it was, no
\* other step writes any partition, and a fetchSessionState call returns
\* stored entries of the current endpoint's partition only.
C11_SessionStateIsolatedPerEndpoint ==
    [][/\ sessionStateMap' # sessionStateMap =>
             /\ stored' # undefined
             /\ DOMAIN sessionStateMap' = DOMAIN sessionStateMap \cup {PartitionKey}
             /\ \A e \in DOMAIN sessionStateMap \ {PartitionKey} :
                   sessionStateMap'[e] = sessionStateMap[e]
       /\ fetched' # fetched =>
             \A key \in DOMAIN fetched'[1].result \cap SessionKeys :
                /\ PartitionKey \in DOMAIN sessionStateMap
                /\ key \in DOMAIN sessionStateMap[PartitionKey]
                /\ fetched'[1].result[key] = sessionStateMap[PartitionKey][key]]_vars

\* "a" is stored under endpoint A only, and a fetch of "a" and "b" under
\* endpoint B returned B's "b" alone
C11_Witness ==
    /\ PartitionKey = "B"
    /\ DOMAIN sessionStateMap = {"A", "B"}
    /\ DOMAIN sessionStateMap["A"] = {"a"}
    /\ DOMAIN sessionStateMap["B"] = {"b"}
    /\ fetched # undefined
    /\ fetched[1].keys = Some({"a", "b"})
    /\ fetched[1].result = sessionStateMap["B"]

\* C12: dispose() discards the session state: after it no partition holds a
\* value stored before it.
C12_DisposeDiscardsSessionState ==
    [][(webview # undefined /\ webview' = undefined) =>
          \A e \in DOMAIN sessionStateMap' : sessionStateMap'[e] = <<>>]_vars

\* the hint that gave the result of the last lookupSymbol call
LookupHint == lookedUp[1].hints[1][lookedUp[1].returned.hint]

\* the position the last lookupSymbol call returned as the source
LookupSource == lookedUp[1].returned.result[1].source.location

\* C13: the source lookupSymbol returns lies in the search window of the
\* hint that gave it: at or after line L for a hint whose location is an
\* empty point at line L, and inside the range for a non-empty location.
C13_SourceInsideSearchWindow ==
    (/\ lookedUp # undefined
     /\ lookedUp[1].returned.result # undefined
     /\ LookupHint.location # undefined
     /\ LookupHint.location[1].kind = "range") =>
        LET location == LookupHint.location[1]
        IN  IF location.start = location.end
            THEN LookupSource.line >= location.start.line
            ELSE /\ ~isBefore(LookupSource, location.start)
                 /\ isBefore(LookupSource, location.end)

\* the hint names a file for which a document opens
HintOpens(hint) ==
    /\ hint.filepath # undefined
    /\ hint.filepath[1] \in {"f", "g"}

\* the hint names a file that resolves to a uri, so that opening it is tried
HintTried(hint) ==
    /\ hint.filepath # undefined
    /\ hint.filepath[1] \in {"f", "g", "locked"}

\* the document of the hint holds a word "x" at which a definition is found
HintHasDefinition(hint) ==
    LET file == hint.filepath[1]
        text == documents[file][1]
    IN  \E o \in 0..(Len(text) - 1) :
           /\ text[o + 1] = "x"
           /\ (o = 0 \/ text[o] = "\n")
           /\ (o + 1 = Len(text) \/ text[o + 2] = "\n")
           /\ [file |-> file, offset |-> o] \in definitions

EffectiveLimit ==
    IF listed[1].limit # undefined /\ listed[1].limit[1] >= 1 THEN listed[1].limit[1] ELSE 20

RECURSIVE ChildrenOf(_)
\* the children of a list of symbols, in order
ChildrenOf(symbols) ==
    IF symbols = <<>> THEN <<>> ELSE Head(symbols).children \o ChildrenOf(Tail(symbols))

RECURSIVE ByLevel(_)
\* the symbols of a forest level by level
ByLevel(symbols) ==
    IF symbols = <<>> THEN <<>> ELSE symbols \o ByLevel(ChildrenOf(symbols))

\* C14: with an empty query listSymbols returns the first
\* min(limit, number of symbols) symbols of the active document taken level
\* by level (siblings in order), as items of the active file, unranked.
C14_EmptyQueryBreadthFirstPrefix ==
    (listed # undefined /\ listed[1].query = <<>> /\ activeTextEditor) =>
        LET flat == ByLevel(documentSymbols)
            n == IF Len(flat) < EffectiveLimit THEN Len(flat) ELSE EffectiveLimit
            returned == listed[1].returned
        IN  /\ Len(returned) = n
            /\ \A k \in 1..n :
                  /\ returned[k].label = flat[k].name
                  /\ returned[k].filepath = ActiveFilepath
                  /\ returned[k].range = [start |-> flat[k].range.start + 1,
                                          end |-> flat[k].range.end + 1]

\* three top-level symbols a, b, a, the first with a child b, and limit 3:
\* the three top-level symbols are returned and the child is not
C14_Witness ==
    /\ activeTextEditor
    /\ Len(documentSymbols) = 3
    /\ Len(documentSymbols[1].children) = 1
    /\ documentSymbols[1].name = <<"a">>
    /\ documentSymbols[1].children[1].name = <<"b">>
    /\ documentSymbols[2].name = <<"b">>
    /\ documentSymbols[3].name = <<"a">>
    /\ listed # undefined
    /\ listed[1].query = <<>>
    /\ listed[1].limit = Some(3)
    /\ [k \in 1..Len(listed[1].returned) |-> listed[1].returned[k].label]
          = << <<"a">>, <<"b">>, <<"a">> >>

\* the score of a label for the query "a" or "ab", written out
ScoreTable(label, query) ==
    IF query = <<"a">>
    THEN (<<"a">> :> 3) @@ (<<"A">> :> 3) @@ (<<"a", "b">> :> 2) @@ (<<"b", "a">> :> 1)
    ELSE (<<"a">> :> 0) @@ (<<"A">> :> 0) @@ (<<"a", "b">> :> 3) @@ (<<"b", "a">> :> 0)

\* C15: for a non-empty query the list returned is in descending order of
\* match score, items of equal score have the shorter label first, the list
\* has at most limit items (20 for a missing, zero or negative limit), and
\* for query a a local item labelled a comes before a workspace item
\* labelled A.
C15_RankedByScoreThenLength ==
    (listed # undefined /\ listed[1].query # <<>> /\ activeTextEditor) =>
        LET query == listed[1].query
            returned == listed[1].returned
            score(k) == ScoreTable(returned[k].label, query)[returned[k].label]
            collected == SubSeq(documentSymbols, 1,
                                IF Len(documentSymbols) < EffectiveLimit
                                THEN Len(documentSymbols) ELSE EffectiveLimit)
        IN  /\ Len(returned) <= EffectiveLimit
            /\ \A i, j \in 1..Len(returned) :
                  i < j =>
                     /\ score(i) >= score(j)
                     /\ score(i) = score(j) =>
                           Len(returned[i].label) <= Len(returned[j].label)
            /\ \A j \in 1..Len(returned) :
                  (/\ query = <<"a">>
                   /\ returned[j].label = <<"A">>
                   /\ returned[j].filepath = OtherFilepath
                   /\ \E k \in 1..Len(collected) : collected[k].name = <<"a">>) =>
                      \E i \in 1..(j - 1) :
                         returned[i].label = <<"a">> /\ returned[i].filepath = ActiveFilepath

\* local ab and a, workspace A, query a and limit 2: a and A are returned in
\* that order and ab is cut
C15_Witness ==
    /\ activeTextEditor
    /\ Len(documentSymbols) = 2
    /\ documentSymbols[1].name = <<"a", "b">>
    /\ documentSymbols[2].name = <<"a">>
    /\ listed # undefined
    /\ listed[1].query = <<"a">>
    /\ listed[1].limit = Some(2)
    /\ Len(listed[1].returned) = 2
    /\ listed[1].returned[1].label = <<"a">>
    /\ listed[1].returned[1].filepath = ActiveFilepath
    /\ listed[1].returned[2].label = <<"A">>
    /\ listed[1].returned[2].filepath = OtherFilepath

\* the composite key of an item: file path, label, range start, range end
CompositeKey(item) == <<item.filepath, item.label, item.range.start, item.range.end>>

\* C16: the merge keeps one item for each composite key (filepath, label,
\* range start, range end) among the local and the workspace results: with
\* nothing cut by the limit, every key of a workspace item is the key of a
\* returned item and no two returned items share a key.
C16_DeduplicatedByCompositeKey ==
    (/\ listed # undefined
     /\ listed[1].query # <<>>
     /\ listed[1].limit = undefined
     /\ activeTextEditor
     /\ workspaceSymbols # undefined) =>
        LET returned == listed[1].returned
            workspace == workspaceSymbols[1]
        IN  /\ \A i, j \in 1..Len(returned) :
                  CompositeKey(returned[i]) = CompositeKey(returned[j]) => i = j
            /\ \A k \in 1..Len(workspace) :
                  \E i \in 1..Len(returned) :
                     CompositeKey(returned[i]) =
                        <<workspace[k].filepath, workspace[k].name,
                          workspace[k].range.start + 1, workspace[k].range.end + 1>>

\* the status listener ran in this step with a new status or config
StatusChanged ==
    /\ webview # undefined
    /\ statusCurrent' # statusCurrent \/ agentConfig' # agentConfig

\* the statuses that are no error, written out
NoErrorStatuses == {StatusHealthy, StatusRecent}

\* C18: when the status listener finds an error status (missing,
\* connecting, unauthorized, disconnected, no health, no chat model, server
\* too old), "error" is emitted and currentConfig and the handle are unset
\* when it returns, from the loading and from the ready state alike.
C18_ErrorStatusClearsConfigAndHandle ==
    [][(StatusChanged /\ statusCurrent' \notin NoErrorStatuses) =>
          /\ emitted' = "error"
          /\ currentConfig' = undefined
          /\ client' = undefined
          /\ html'.page = "error"]_vars

\* the panel was ready and the server is found too old
C18_Witness ==
    /\ statusCurrent = StatusTooOld
    /\ resolved # undefined
    /\ resolved[1].gen = 1
    /\ reloadCount = 2
    /\ emitted = "error"
    /\ html.text = MsgTooOld
    /\ currentConfig = undefined
    /\ client = undefined

\* C19: with a healthy status and a server config, the status listener
\* starts a new load (handle cleared, "loading" emitted, reloadCount
\* incremented, handle creation begun, currentConfig replaced) iff
\* currentConfig is unset or differs in endpoint or token; otherwise the
\* handle, reloadCount, currentConfig and the page stay as they are and
\* nothing is emitted (every emission comes with a change of reloadCount).
C19_NewLoadIffConfigDiffers ==
    [][(StatusChanged /\ statusCurrent' \in NoErrorStatuses /\ agentConfig' # undefined) =>
          IF \/ currentConfig = undefined
             \/ currentConfig[1].endpoint # agentConfig'[1].server.endpoint
             \/ currentConfig[1].token # agentConfig'[1].server.token
          THEN /\ client' = undefined
               /\ emitted' = "loading"
               /\ reloadCount' = reloadCount + 1
               /\ currentConfig' = Some(agentConfig'[1].server)
               /\ inflight' = inflight \cup {[gen |-> reloadCount + 1, webview |-> webview[1]]}
               /\ html'.page = "main"
          ELSE UNCHANGED <<client, emitted, reloadCount, currentConfig, inflight, html>>]_vars

\* the panel was ready for endpoint A and a config with another token for
\* the same endpoint started the second load
C19_Witness ==
    /\ statusCurrent \in NoErrorStatuses
    /\ currentConfig = Some([endpoint |-> "A", token |-> "t2"])
    /\ html = [page |-> "main", reloadCount |-> 2, text |-> "A"]
    /\ resolved # undefined
    /\ resolved[1].gen = 1
    /\ reloadCount = 2
    /\ emitted = "loading"
    /\ client = undefined
    /\ \E p \in inflight : p.gen = 2

\* C20: when a connect timer fires on a live webview an error page is
\* rendered, whether or not an endpoint is configured: the panel is not left
\* on the loading page.
C20_TimeoutAlwaysRendersErrorPage ==
    [][(/\ webview # undefined
        /\ timers' # timers
        /\ timers' \subseteq timers
        /\ createClientTimeout' = createClientTimeout) =>
          /\ html'.page = "error"
          /\ emitted' = "error"
          /\ (currentConfig # undefined /\ currentConfig[1].endpoint # "") =>
                html'.text = MsgFailedToLoad]_vars

\* C21: session state survives reloads: a step that renders a page or
\* changes the current config (a reload, an error page, a switch of
\* endpoint) leaves every partition as it was, and a fetchSessionState call
\* returns every requested key that the partition of the current endpoint
\* holds, with the value held there.
C21_SessionStateSurvivesReloads ==
    [][/\ (reloadCount' # reloadCount \/ currentConfig' # currentConfig) =>
             sessionStateMap' = sessionStateMap
       /\ fetched' # fetched =>
             \A key \in (IF fetched'[1].keys = undefined THEN SessionKeys
                         ELSE fetched'[1].keys[1] \cap SessionKeys) :
                (/\ PartitionKey \in DOMAIN sessionStateMap
                 /\ key \in DOMAIN sessionStateMap[PartitionKey]) =>
                    /\ key \in DOMAIN fetched'[1].result
                    /\ fetched'[1].result[key] = sessionStateMap[PartitionKey][key]]_vars

\* "a" was stored under A, then "b" under B (the store made last), and the
\* third page load is for A again, where a fetch returned A's "a"
C21_Witness ==
    /\ PartitionKey = "A"
    /\ reloadCount = 3
    /\ html = [page |-> "main", reloadCount |-> 3, text |-> "A"]
    /\ DOMAIN sessionStateMap = {"A", "B"}
    /\ DOMAIN sessionStateMap["A"] = {"a"}
    /\ sessionStateMap["A"]["a"] = "1"
    /\ DOMAIN sessionStateMap["B"] = {"b"}
    /\ stored # undefined
    /\ DOMAIN stored[1] = {"b"}
    /\ fetched # undefined
    /\ fetched[1].keys = undefined
    /\ DOMAIN fetched[1].result = {"a"}
    /\ fetched[1].result["a"] = "1"

\* the offsets of text at which the word x stands alone
WordOffsets(text) ==
    {o \in 0..(Len(text) - 1) :
        /\ text[o + 1] = "x"
        /\ (o = 0 \/ text[o] = "\n")
        /\ (o + 1 = Len(text) \/ text[o + 2] = "\n")}

\* the offset in text of a position: the characters on the lines before
\* it, and its character
OffsetOf(text, position) ==
    position.character
        + Cardinality({i \in 1..Len(text) :
                          Cardinality({j \in 1..(i - 1) : text[j] = "\n"}) < position.line})

\* C22: lookupSymbol returns the first success in scan order: every scan
\* asks the definition provider at occurrences of the name in textual
\* order, skipping no whole-word occurrence between its first and its last;
\* the last offset asked at is the only one with a definition and is the
\* source returned, a whole-word occurrence of the name in its document;
\* the target is the first definition returned there; and no scan is made
\* in, and no document opened for, a later hint.
C22_FirstSuccessInScanOrder ==
    (/\ lookedUp # undefined
     /\ lookedUp[1].symbol = <<"x">>
     /\ lookedUp[1].returned.result # undefined) =>
        LET returned == lookedUp[1].returned
            hints == lookedUp[1].hints[1]
            file == hints[returned.hint].filepath[1]
            text == documents[file][1]
            scans == returned.queried
            last == scans[Len(scans)]
            source == OffsetOf(text, returned.result[1].source.location)
        IN  /\ Len(scans) > 0
            /\ \A n \in 1..Len(scans) :
                  LET scan == scans[n]
                      words == WordOffsets(documents[scan.file][1])
                  IN  /\ \A i \in 1..Len(scan.offsets) :
                            documents[scan.file][1][scan.offsets[i] + 1] = "x"
                      /\ \A i \in 1..(Len(scan.offsets) - 1) :
                            /\ scan.offsets[i] < scan.offsets[i + 1]
                            /\ ~\E o \in words :
                                  scan.offsets[i] < o /\ o < scan.offsets[i + 1]
                      /\ \A i \in 1..Len(scan.offsets) :
                            ([file |-> scan.file, offset |-> scan.offsets[i]] \in definitions)
                               <=> (n = Len(scans) /\ i = Len(scan.offsets))
                      /\ \E k \in 1..returned.hint : hints[k].filepath = Some(scan.file)
            /\ last.file = file
            /\ last.offsets # <<>>
            /\ last.offsets[Len(last.offsets)] = source
            /\ source \in WordOffsets(text)
            /\ returned.result[1].source.filepath = file
            /\ returned.result[1].target = [uri |-> file, nth |-> 1]
            /\ returned.opened[Len(returned.opened)] = file
            /\ Len(returned.opened) <= returned.hint

\* the items of the symbols of the active document, of the first limit of
\* them, that match the query by name
LocalMatches(query) ==
    {[filepath |-> ActiveFilepath,
      range |-> [start |-> documentSymbols[k].range.start + 1,
                 end |-> documentSymbols[k].range.end + 1],
      label |-> documentSymbols[k].name] :
        k \in {j \in 1..Len(documentSymbols) :
                  /\ j <= EffectiveLimit
                  /\ \E i \in 0..(Len(documentSymbols[j].name) - Len(query)) :
                        SubSeq(documentSymbols[j].name, i + 1, i + Len(query)) = query}}

\* C23: listSymbols degrades: with no active editor, or with a document
\* symbol provider that fails, it returns an empty list; with a workspace
\* search that fails and a query, it returns the matching symbols among
\* the first limit symbols of the active document, each once.
C23_ListSymbolsDegrades ==
    listed # undefined =>
        LET returned == listed[1].returned
        IN  /\ (~activeTextEditor \/ documentSymbolsRejects) => returned = <<>>
            /\ (/\ activeTextEditor
                /\ ~documentSymbolsRejects
                /\ workspaceSymbols = undefined
                /\ listed[1].query # <<>>) =>
                   LET matches == LocalMatches(listed[1].query)
                   IN  /\ \A k \in 1..Len(returned) : returned[k] \in matches
                       /\ \A j, k \in 1..Len(returned) : returned[j] = returned[k] => j = k
                       /\ Len(returned) = IF Cardinality(matches) < EffectiveLimit
                                          THEN Cardinality(matches) ELSE EffectiveLimit

\* the workspace search failed and the two matching symbols of the active
\* document were returned
C23_Witness ==
    /\ listed # undefined
    /\ activeTextEditor
    /\ ~documentSymbolsRejects
    /\ workspaceSymbols = undefined
    /\ listed[1].query = <<"a">>
    /\ listed[1].limit = undefined
    /\ Len(documentSymbols) = 2
    /\ Len(listed[1].returned) = 2
    /\ listed[1].returned[1].label = <<"a">>
    /\ listed[1].returned[2].label = <<"a", "b">>

\* the context a notification for an editor passes to the panel
ContextOf(editor) ==
    IF editor = undefined \/ editor = Some("invalid") THEN "null" ELSE editor[1]

\* the first expiry of the debounce timer after entry i of the log
FirstElapsedAfter(i) ==
    CHOOSE j \in (i + 1)..Len(selectionLog) :
        /\ selectionLog[j].kind = "elapsed"
        /\ \A k \in (i + 1)..(j - 1) : selectionLog[k].kind # "elapsed"

TooOldTexts ==
    {<<"0", ".", "2", "6", ".", "9">>, <<"0", ".", "9", ".", "0">>,
     <<"v", "0", ".", "2", "6", ".", "0">>, <<"0", ".", "2", "6">>}

\* the error of a status info by the priority list of the claim, "" for
\* none
ExpectedError(statusInfo) ==
    CASE statusInfo = undefined -> MsgConnecting
      [] statusInfo # undefined /\ statusInfo[1].status = "connecting" -> MsgConnecting
      [] statusInfo # undefined /\ statusInfo[1].status = "unauthorized" -> MsgUnauthorized
      [] statusInfo # undefined /\ statusInfo[1].status = "disconnected" -> MsgDisconnected
      [] OTHER ->
           LET health == statusInfo[1].serverHealth
           IN  CASE health = undefined -> MsgNoHealth
                 [] health # undefined /\ ~(health[1].webserver /\ health[1].chat_model) ->
                      MsgNoChatModel
                 [] OTHER ->
                      IF /\ health[1].version # undefined
                         /\ health[1].version[1].type \in {"string", "git_describe"}
                         /\ health[1].version[1].text \in TooOldTexts
                      THEN MsgTooOld
                      ELSE ""

\* C25: the page rendered for a status is the error page of the first case
\* of the list that applies (missing or connecting; unauthorized;
\* disconnected; no health; no webserver or chat model; a version below
\* 0.27.0) and the chat panel when none applies: a healthy status with a
\* version of 0.27.0 or above, with no version, or with a version that does
\* not read as one.
C25_StatusErrorByPriority ==
    (webview # undefined /\ agentConfig # undefined) =>
        IF ExpectedError(statusCurrent) = ""
        THEN html.page = "main" /\ emitted \in {"loading", "ready"}
        ELSE /\ html.page = "error"
             /\ html.text = ExpectedError(statusCurrent)
             /\ emitted = "error"

\* a server of version 0.26.9 was turned down after one of version 0.27.0
\* had been accepted
C25_Witness ==
    /\ webview # undefined
    /\ statusCurrent # undefined
    /\ statusCurrent[1].status = "ready"
    /\ statusCurrent[1].serverHealth # undefined
    /\ statusCurrent[1].serverHealth[1].version =
          Some([type |-> "string", text |-> <<"0", ".", "2", "6", ".", "9">>])
    /\ html = [page |-> "error", reloadCount |-> 2, text |-> MsgTooOld]

\* C26: the reload counter of the rendered page increases: a step that
\* renders a page adds exactly one to reloadCount and writes the new value
\* into the page, and no step, dispose and a second init included, lowers
\* the counter; so no two renders carry the same value.
C26_ReloadCounterIncreases ==
    [][/\ reloadCount' >= reloadCount
       /\ html' # html =>
             /\ reloadCount' = reloadCount + 1
             /\ html'.reloadCount = reloadCount'
             /\ html'.reloadCount > html.reloadCount
       /\ reloadCount' # reloadCount => html'.reloadCount = reloadCount']_vars

\* the second view, initialised after a dispose, carries the third render
C26_Witness ==
    /\ webviewCount = 2
    /\ webview = Some(2)
    /\ reloadCount = 3
    /\ html.reloadCount = 3
    /\ html.page = "main"

\* C27: at every point where control is back at the event loop the queue is
\* empty whenever the handle is set, and the queue grows only in a step
\* that starts with no handle.
C27_QueueEmptyWhileHandleSet ==
    [][/\ client' # undefined => pendingActions' = <<>>
       /\ Len(pendingActions') > Len(pendingActions) => client = undefined]_vars

\* two calls were queued, the handle creation flushed them, and the handle
\* is set with the queue empty
C27_Witness ==
    /\ client # undefined
    /\ pendingActions = <<>>
    /\ Len(started) = 2
    /\ Len(calls) = 2
    /\ \A i \in 1..2 : calls[i].path = "queued"

\* C28: dispose is final until init is called again: in a step taken with
\* no webview and that is no init, the handle and currentConfig stay unset,
\* no "didChangedStatus" event is emitted and no showChatPanel message is
\* posted, whatever handle creations were in flight and whatever timers
\* were armed at dispose.
C28_DisposeFinalUntilInit ==
    [][(webview = undefined /\ webview' = undefined /\ webviewCount > 0) =>
          /\ client' = undefined
          /\ currentConfig' = undefined
          /\ emitted' = emitted
          /\ shown' = shown]_vars

\* C29: recovery from an error page: when the panel shows an error page and
\* the status listener runs with a healthy status and a server config, a
\* chat panel load starts: "loading" is emitted and the main page is
\* rendered, also when the config is that of the load that failed.
C29_ErrorPageRecoversOnHealthyStatus ==
    [][(/\ webview # undefined
        /\ html.page = "error"
        /\ emitted = "error"
        /\ statusCurrent' # statusCurrent \/ agentConfig' # agentConfig
        /\ statusCurrent' \in NoErrorStatuses
        /\ agentConfig' # undefined) =>
          /\ emitted' = "loading"
          /\ html'.page = "main"
          /\ reloadCount' = reloadCount + 1]_vars

\* C30: the capability gate agrees with the dispatch: on a handle for which
\* isTerminalContextEnabled gave true, every addRelevantContext call with a
\* terminal context and every executeCommand("explain-terminal") call is
\* delivered to the panel, none is skipped.
C30_GateAgreesWithDispatch ==
    terminalContextEnabled = Some(TRUE) =>
        \A i \in DOMAIN calls :
            calls[i].arg \in {"terminal", "explain-terminal"} => calls[i].result = "delivered"

====
